---- MODULE Spec2Model ----
(***************************************************************************)
(* A model of the text-buffer core of the ironn editor.                    *)
(*                                                                         *)
(*   - Row (src/src/row.rs) and its twin (src/src/doc_row.rs): one line    *)
(*     of text, edited in grapheme-cluster units, with a cached length.    *)
(*   - Document (src/src/document.rs) and Doc (src/src/doc.rs): the        *)
(*     ordered rows, the dirty flag, the file name and type.               *)
(*   - App (src/src/app.rs): cursor, scroll offset, key handling.          *)
(*                                                                         *)
(* A Rust String is a sequence of code points; a code point is a TLA+      *)
(* string naming it ("a", "U+0301").  Indices of the source are 0-based;   *)
(* TLA+ sequences are 1-based, so element i of the source is s[i + 1].     *)
(***************************************************************************)
EXTENDS Integers, Sequences, FiniteSets, TLC

VARIABLES
    \* ---- the Row machine (SpecRow) ----
    row,               \* the Row under edit
    hist,              \* ghost: the last two Row calls, oldest first
    rimpl,             \* which Row: "row" (row.rs) or "doc_row" (doc_row.rs)
    \* ---- Document / Doc (SpecDoc, and owned by App in Spec) ----
    impl,              \* which document type: "Document" or "Doc"
    build,             \* "debug" (overflow checks on) or "release" (wrapping)
    rows,              \* Vec<Row>
    dirty,             \* bool
    file_name,         \* Option<String>: NoName or a name
    file_type,         \* FileType, by its name
    panicked,          \* the thread has panicked (unwrap on None, index out of range)
    call,              \* ghost: the last call made on the document, or the last key
    ncalls,            \* ghost: number of calls / key events so far
    disk,              \* the files on disk: name -> sequence of lines, or NoFile
    saved,             \* ghost: row contents at load / creation / last successful save
    \* ---- App ----
    cursor_position,   \* Position {x, y}
    offset,            \* Position {x, y}
    terminal_size,     \* Rect {width, height}
    current_screen,    \* CurrentScreen: "Main" or "Saving"
    should_quit,       \* bool
    quit_times,        \* u8
    pc,                \* where App::run is: "draw", "key", "done"
    \* ---- Editor (SpecEditor) ----
    highlighted_word,  \* Option<String>
    prompt             \* the locals of search and its prompt: result, direction, old_position

rowVars == <<row, hist, rimpl>>
docVars == <<impl, build, rows, dirty, file_name, file_type, panicked, call, ncalls, disk, saved>>
appVars == <<cursor_position, offset, terminal_size, current_screen, should_quit, quit_times, pc,
             highlighted_word, prompt>>
vars == <<rowVars, docVars, appVars>>

----------------------------------------------------------------------------
(* Bounds of the model. *)

\* Longest row string, in code points, the bounded runs build.
MaxStr == 3
\* Most calls on the document in one run of SpecDoc.
MaxCalls == 2
\* Most key events in one run of Spec.
MaxKeys == 3
\* Largest document area the terminal offers, in cells.
MaxSide == 2
\* Longest line, in chars, of the lines highlight is run on exhaustively.
MaxLine == 3

\* Code points of the runs: two letters and COMBINING ACUTE ACCENT.
Letters == {"a", "b"}
Combining == {"U+0301"}
Chars == Letters \cup Combining
NewLine == "\n"

----------------------------------------------------------------------------
(* Strings and grapheme clusters. *)

RECURSIVE Concat(_)
Concat(ss) == IF ss = <<>> THEN <<>> ELSE Head(ss) \o Concat(Tail(ss))

\* Grapheme_Extend of UAX #29: a combining mark continues the cluster.
IsExtend(c) == c \in Combining

\* Length of the first cluster of a non-empty string: UAX #29 breaks before
\* every code point that is not Extend (GB9, GB999), and at the start (GB1).
FirstCluster(s) ==
    CHOOSE n \in 1..Len(s) :
        /\ \A i \in 2..n : IsExtend(s[i])
        /\ (n = Len(s) \/ ~IsExtend(s[n + 1]))

RECURSIVE Graphemes(_)
Graphemes(s) ==
    IF s = <<>> THEN <<>>
    ELSE LET n == FirstCluster(s)
         IN <<SubSeq(s, 1, n)>> \o Graphemes(SubSeq(s, n + 1, Len(s)))

\* All strings over Chars of length at most n.
RECURSIVE StringsUpTo(_)
StringsUpTo(n) ==
    IF n = 0 THEN {<<>>}
    ELSE LET shorter == StringsUpTo(n - 1)
         IN shorter \cup {Append(s, c) : s \in {t \in shorter : Len(t) = n - 1}, c \in Chars}

----------------------------------------------------------------------------
(* Row of src/src/row.rs. *)

RowDefault == [string |-> <<>>, highlighting |-> <<>>, len |-> 0, is_highlighted |-> FALSE]

RowFrom(slice) ==
    [string |-> slice, highlighting |-> <<>>,
     len |-> Len(Graphemes(slice)), is_highlighted |-> FALSE]

RowInsert(r, at, c) ==
    IF at >= r.len
    THEN [r EXCEPT !.string = Append(@, c), !.len = @ + 1]
    ELSE LET g == Graphemes(r.string)
             piece(i) == IF i - 1 = at THEN <<c>> \o g[i] ELSE g[i]
         IN [r EXCEPT !.string = Concat([i \in 1..Len(g) |-> piece(i)]),
                      !.len = @ + 1]

RowDelete_KeepsLen(r, at) ==
    IF at >= r.len THEN r
    ELSE LET g == Graphemes(r.string)
             piece(i) == IF i - 1 # at THEN g[i] ELSE <<>>
         IN [r EXCEPT !.string = Concat([i \in 1..Len(g) |-> piece(i)])]

RowDelete(r, at) ==
    IF at >= r.len THEN r
    ELSE LET g == Graphemes(r.string)
             piece(i) == IF i - 1 # at THEN g[i] ELSE <<>>
         IN [r EXCEPT !.string = Concat([i \in 1..Len(g) |-> piece(i)]),
                      !.len = @ - 1]

RowAppend(r, new) ==
    [r EXCEPT !.string = @ \o new.string, !.len = @ + new.len]

\* split returns the new Row and truncates self: both are given here.
RowSplit_OffByOne(r, at) ==
    LET g == Graphemes(r.string)
        first == {i \in 1..Len(g) : i - 1 <= at}
        length == Cardinality(first)
        split_length == r.len - length
    IN [self |-> [r EXCEPT !.string = Concat(SubSeq(g, 1, length)),
                           !.len = length,
                           !.is_highlighted = FALSE],
        new |-> [string |-> Concat(SubSeq(g, length + 1, Len(g))),
                 highlighting |-> <<>>,
                 len |-> split_length,
                 is_highlighted |-> FALSE]]

RowSplit(r, at) ==
    LET g == Graphemes(r.string)
        first == {i \in 1..Len(g) : i - 1 < at}
        length == Cardinality(first)
        split_length == r.len - length
    IN [self |-> [r EXCEPT !.string = Concat(SubSeq(g, 1, length)),
                           !.len = length,
                           !.is_highlighted = FALSE],
        new |-> [string |-> Concat(SubSeq(g, length + 1, Len(g))),
                 highlighting |-> <<>>,
                 len |-> split_length,
                 is_highlighted |-> FALSE]]

RowUnhighlight(r) == [r EXCEPT !.is_highlighted = FALSE]

----------------------------------------------------------------------------
(* Row of src/src/doc_row.rs: the same operations, no highlighting. *)

DocRowDefault == [string |-> <<>>, len |-> 0]

DocRowFrom(slice) == [string |-> slice, len |-> Len(Graphemes(slice))]

DocRowInsert(r, at, c) ==
    IF at >= r.len
    THEN [r EXCEPT !.string = Append(@, c), !.len = @ + 1]
    ELSE LET g == Graphemes(r.string)
             piece(i) == IF i - 1 = at THEN <<c>> \o g[i] ELSE g[i]
         IN [r EXCEPT !.string = Concat([i \in 1..Len(g) |-> piece(i)]),
                      !.len = @ + 1]

DocRowDelete(r, at) ==
    IF at >= r.len THEN r
    ELSE LET g == Graphemes(r.string)
             piece(i) == IF i - 1 # at THEN g[i] ELSE <<>>
         IN [r EXCEPT !.string = Concat([i \in 1..Len(g) |-> piece(i)]),
                      !.len = @ - 1]

DocRowAppend(r, new) ==
    [r EXCEPT !.string = @ \o new.string, !.len = @ + new.len]

DocRowSplit(r, at) ==
    LET g == Graphemes(r.string)
        first == {i \in 1..Len(g) : i - 1 < at}
        length == Cardinality(first)
        split_length == r.len - length
    IN [self |-> [r EXCEPT !.string = Concat(SubSeq(g, 1, length)),
                           !.len = length],
        new |-> [string |-> Concat(SubSeq(g, length + 1, Len(g))),
                 len |-> split_length]]

----------------------------------------------------------------------------
(* Vec<Row> and Position. *)

Pos(x, y) == [x |-> x, y |-> y]

\* Option<String>: the search word of highlight.
NoWord == [some |-> FALSE, v |-> <<>>]
Word(v) == [some |-> TRUE, v |-> v]

\* The locals of Editor::search and of its prompt while no search runs.
NoPrompt == [result |-> <<>>, direction |-> "Forward", old_position |-> Pos(0, 0)]

\* Puts e at the end of the vector, whatever the index.
VecInsert_AtEnd(v, index, e) == Append(v, e)

\* Vec::insert(index, e), index 0-based.
VecInsert(v, index, e) == SubSeq(v, 1, index) \o <<e>> \o SubSeq(v, index + 1, Len(v))

\* Drops the first element, whatever the index.
VecRemove_First(v, index) == SubSeq(v, 2, Len(v))

\* Vec::remove(index), index 0-based.
VecRemove(v, index) == SubSeq(v, 1, index) \o SubSeq(v, index + 2, Len(v))

\* usize::saturating_sub.
SaturatingSub(a, b) == IF a > b THEN a - b ELSE 0

\* Vec::get(y).map_or(0, Row::len).
RowLenAt(rs, y) == IF y < Len(rs) THEN rs[y + 1].len ELSE 0

\* The strings of the rows, in order: what save writes and load reads.
Contents(rs) == [i \in 1..Len(rs) |-> rs[i].string]

----------------------------------------------------------------------------
(* Document of src/src/document.rs.  A document value d is               *)
(* [rows, dirty, panic]: panic is set when the call panics.              *)

DocumentUnhighlightRows(d, start) ==
    LET from == SaturatingSub(start, 1)
    IN [d EXCEPT !.rows = [i \in 1..Len(d.rows) |->
                              IF i - 1 >= from THEN RowUnhighlight(d.rows[i]) ELSE d.rows[i]]]

DocumentInsertNewline(d, at) ==
    IF at.y > Len(d.rows) THEN d
    ELSE IF at.y = Len(d.rows) THEN [d EXCEPT !.rows = Append(@, RowDefault)]
    ELSE LET res == RowSplit(d.rows[at.y + 1], at.x)
         IN [d EXCEPT !.rows = VecInsert([@ EXCEPT ![at.y + 1] = res.self], at.y + 1, res.new)]

\* at.y - 1 is a usize subtraction: at.y = 0 panics with overflow checks (a
\* debug build) and wraps to usize::MAX without them (a release build).
DocumentInsert(d, at, c) ==
    IF at.y = 0 /\ build = "debug" THEN [d EXCEPT !.panic = TRUE]
    ELSE IF at.y = 0 \/ at.y - 1 > Len(d.rows) THEN d
    ELSE LET d1 == [d EXCEPT !.dirty = TRUE]
         IN IF c = NewLine
            THEN DocumentUnhighlightRows(DocumentInsertNewline(d1, at), at.y)
            ELSE IF at.y = Len(d.rows)
            THEN DocumentUnhighlightRows(
                     [d1 EXCEPT !.rows = Append(@, RowInsert(RowDefault, 0, c))], at.y)
            ELSE IF at.y - 1 >= Len(d.rows)
            THEN [d1 EXCEPT !.panic = TRUE]
            ELSE DocumentUnhighlightRows(
                     [d1 EXCEPT !.rows[at.y] = RowInsert(@, at.x, c)], at.y)

DocumentDelete(d, at) ==
    LET len == Len(d.rows)
    IN IF at.y >= len THEN d
       ELSE LET d1 == [d EXCEPT !.dirty = TRUE]
            IN IF at.x = d.rows[at.y + 1].len /\ at.y + 1 < len
               THEN LET next_row == d.rows[at.y + 2]
                        removed == VecRemove(d1.rows, at.y + 1)
                    IN DocumentUnhighlightRows(
                           [d1 EXCEPT !.rows = [removed EXCEPT ![at.y + 1] = RowAppend(@, next_row)]],
                           at.y)
               ELSE DocumentUnhighlightRows(
                        [d1 EXCEPT !.rows[at.y + 1] = RowDelete(@, at.x)], at.y)

----------------------------------------------------------------------------
(* Doc of src/src/doc.rs. *)

DocInsertNewline(d, at) ==
    IF at.y > Len(d.rows) THEN d
    ELSE IF at.y = Len(d.rows) THEN [d EXCEPT !.rows = Append(@, DocRowDefault)]
    ELSE LET res == DocRowSplit(d.rows[at.y + 1], at.x)
         IN [d EXCEPT !.rows = VecInsert([@ EXCEPT ![at.y + 1] = res.self], at.y + 1, res.new)]

DocInsert(d, at, c) ==
    IF at.y > Len(d.rows) THEN d
    ELSE LET d1 == [d EXCEPT !.dirty = TRUE]
         IN IF c = NewLine THEN DocInsertNewline(d1, at)
            ELSE IF at.y = Len(d.rows)
            THEN [d1 EXCEPT !.rows = Append(@, DocRowInsert(DocRowDefault, 0, c))]
            ELSE [d1 EXCEPT !.rows[at.y + 1] = DocRowInsert(@, at.x, c)]

\* self.rows.get(at.y).unwrap() panics when at.y = len: get returns None.
DocDelete(d, at) ==
    IF at.y > Len(d.rows) THEN d
    ELSE LET d1 == [d EXCEPT !.dirty = TRUE]
         IN IF at.y = Len(d.rows) THEN [d1 EXCEPT !.panic = TRUE]
            ELSE IF at.x = d.rows[at.y + 1].len /\ at.y + 1 < Len(d.rows)
            THEN LET next_row == d.rows[at.y + 2]
                     removed == VecRemove(d1.rows, at.y + 1)
                 IN [d1 EXCEPT !.rows = [removed EXCEPT ![at.y + 1] = DocRowAppend(@, next_row)]]
            ELSE [d1 EXCEPT !.rows[at.y + 1] = DocRowDelete(@, at.x)]

----------------------------------------------------------------------------
(* Files: FileType::from, Document::open / Doc::open, Document::save /    *)
(* Doc::write_out.                                                        *)

NoName == "None"
FileNames == {"main.rs", "notes.txt"}

\* Path::extension of the names of the runs.
Extension(name) == IF name = "main.rs" THEN "rs" ELSE IF name = "notes.txt" THEN "txt" ELSE ""

FileTypeDefault == "No filetype"
FileTypeFrom(name) == IF Extension(name) \in {"rs", "RS", "Rs", "rS"} THEN "Rust" ELSE FileTypeDefault

NoFile == [exists |-> FALSE, text |-> <<>>]
FileOf(text) == [exists |-> TRUE, text |-> text]

\* str::lines: lines end at "\n" (a "\r" before it is dropped too); a last
\* line without "\n" counts when it is not empty.
RECURSIVE Lines(_)
Lines(text) ==
    IF text = <<>> THEN <<>>
    ELSE LET ends == {i \in 1..Len(text) : text[i] = NewLine}
         IN IF ends = {}
            THEN <<text>>
            ELSE LET e == CHOOSE i \in ends : \A j \in ends : i <= j
                     line == SubSeq(text, 1, e - 1)
                     stripped == IF line # <<>> /\ line[Len(line)] = "\r"
                                 THEN SubSeq(line, 1, Len(line) - 1) ELSE line
                 IN <<stripped>> \o Lines(SubSeq(text, e + 1, Len(text)))

\* The write_all calls of save, in order: each row's bytes, then "\n".
WriteUnits(rs) ==
    Concat([i \in 1..Len(rs) |-> <<rs[i].string, <<NewLine>>>>])

\* What File::create and the write_all calls can do: fail at create, fail at
\* the write_all call number n (0-based, the earlier ones done), or succeed.
IoOutcomes(rs) ==
    {[kind |-> "create_err", n |-> 0], [kind |-> "ok", n |-> 0]}
        \cup {[kind |-> "write_err", n |-> n] : n \in 0..(2 * Len(rs) - 1)}

\* save / write_out on file f = [rows, dirty, file_name, file_type, disk]:
\* the new f, and ok: whether the call returned Ok.
SaveFile(f, io) ==
    IF f.file_name = NoName THEN [f |-> f, ok |-> TRUE]
    ELSE IF io.kind = "create_err" THEN [f |-> f, ok |-> FALSE]
    ELSE LET typed == [f EXCEPT !.file_type = FileTypeFrom(f.file_name)]
             units == WriteUnits(f.rows)
         IN IF io.kind = "write_err"
            THEN [f |-> [typed EXCEPT !.disk[f.file_name] =
                                          FileOf(Concat(SubSeq(units, 1, io.n)))],
                  ok |-> FALSE]
            ELSE [f |-> [typed EXCEPT !.disk[f.file_name] = FileOf(Concat(units)),
                                      !.dirty = FALSE],
                  ok |-> TRUE]

DocumentSave(f, io) == SaveFile(f, io)
DocWriteOut(f, io) == SaveFile(f, io)

\* open: the rows of the file's lines; fails when the file cannot be read.
DocumentOpen(filename, text) ==
    [rows |-> [i \in 1..Len(Lines(text)) |-> RowFrom(Lines(text)[i])],
     file_name |-> filename, dirty |-> FALSE, file_type |-> FileTypeFrom(filename)]

DocOpen(filename, text) ==
    [rows |-> [i \in 1..Len(Lines(text)) |-> DocRowFrom(Lines(text)[i])],
     file_name |-> filename, dirty |-> FALSE, file_type |-> FileTypeFrom(filename)]

DocumentDefault ==
    [rows |-> <<>>, file_name |-> NoName, dirty |-> FALSE, file_type |-> FileTypeDefault]

----------------------------------------------------------------------------
(* The Row machine: one Row, built from text, under any sequence of calls. *)

RowImpls == {"row", "doc_row"}

RDefault == IF rimpl = "row" THEN RowDefault ELSE DocRowDefault
RFrom(slice) == IF rimpl = "row" THEN RowFrom(slice) ELSE DocRowFrom(slice)
RInsert(r, at, c) == IF rimpl = "row" THEN RowInsert(r, at, c) ELSE DocRowInsert(r, at, c)
RDelete(r, at) == IF rimpl = "row" THEN RowDelete(r, at) ELSE DocRowDelete(r, at)
RAppend(r, new) == IF rimpl = "row" THEN RowAppend(r, new) ELSE DocRowAppend(r, new)
RSplit(r, at) == IF rimpl = "row" THEN RowSplit(r, at) ELSE DocRowSplit(r, at)

\* Texts a Row is appended from, besides the Row the last split returned.
AppendTexts == {<<"b">>, <<"U+0301">>}

\* One entry of hist: the call, its arguments, self before it, what it returned.
Called(op, at, c, arg, ret) ==
    [op |-> op, at |-> at, c |-> c, pre |-> row, arg |-> arg, ret |-> ret]

Remember(h) == IF Len(hist) < 2 THEN Append(hist, h) ELSE <<hist[2], h>>

\* The Row the last call returned, when it was a split.
SplitOff == IF hist # <<>> /\ hist[Len(hist)].op = "split" THEN {hist[Len(hist)].ret} ELSE {}

\* Values of the variables a specification does not use.
RowIdle ==
    /\ row = DocRowDefault
    /\ hist = <<>>
    /\ rimpl = "doc_row"

DocIdle ==
    /\ impl = "Doc"
    /\ build = "release"
    /\ rows = <<>>
    /\ dirty = FALSE
    /\ file_name = NoName
    /\ file_type = FileTypeDefault
    /\ panicked = FALSE
    /\ call = [op |-> "new"]
    /\ ncalls = 0
    /\ disk = [n \in FileNames |-> NoFile]
    /\ saved = <<>>

AppIdle ==
    /\ cursor_position = [x |-> 0, y |-> 0]
    /\ offset = [x |-> 0, y |-> 0]
    /\ terminal_size = [width |-> 0, height |-> 0]
    /\ current_screen = "Main"
    /\ should_quit = FALSE
    /\ quit_times = 0
    /\ pc = "draw"
    /\ highlighted_word = NoWord
    /\ prompt = NoPrompt

InitRow ==
    /\ rimpl \in RowImpls
    /\ \E text \in StringsUpTo(MaxStr) : row = RFrom(text)
    /\ hist = <<>>
    /\ DocIdle
    /\ AppIdle

RowInsertCall ==
    \E at \in 0..row.len, c \in Chars :
        /\ Len(row.string) < MaxStr
        /\ row.len <= MaxStr
        /\ row' = RInsert(row, at, c)
        /\ hist' = Remember(Called("insert", at, c, RDefault, RDefault))
        /\ UNCHANGED <<rimpl, docVars, appVars>>

RowDeleteCall ==
    \E at \in 0..row.len :
        /\ row' = RDelete(row, at)
        /\ hist' = Remember(Called("delete", at, "", RDefault, RDefault))
        /\ UNCHANGED <<rimpl, docVars, appVars>>

RowSplitCall ==
    \E at \in 0..(row.len + 1) :
        LET res == RSplit(row, at)
        IN /\ row' = res.self
           /\ hist' = Remember(Called("split", at, "", RDefault, res.new))
           /\ UNCHANGED <<rimpl, docVars, appVars>>

RowAppendCall ==
    \E new \in SplitOff \cup {RFrom(t) : t \in AppendTexts} :
        /\ Len(row.string) + Len(new.string) <= MaxStr
        /\ row.len + new.len <= MaxStr + 1
        /\ row' = RAppend(row, new)
        /\ hist' = Remember(Called("append", 0, "", new, RDefault))
        /\ UNCHANGED <<rimpl, docVars, appVars>>

NextRow ==
    \/ RowInsertCall
    \/ RowDeleteCall
    \/ RowSplitCall
    \/ RowAppendCall

SpecRow == InitRow /\ [][NextRow]_vars

\* The cached length never runs below the number of clusters, so no usize
\* subtraction of Row (len -= 1, self.len - length) wraps.
RowLenInRange == row.len >= Len(Graphemes(row.string))

----------------------------------------------------------------------------
(* Claims about Row, checked under SpecRow. *)

Last == hist[Len(hist)]
LastTwo(op1, op2) == Len(hist) = 2 /\ hist[1].op = op1 /\ hist[2].op = op2
HasMultiCluster(s) == \E i \in 1..Len(Graphemes(s)) : Len(Graphemes(s)[i]) > 1
Min(a, b) == IF a < b THEN a ELSE b

\* C1: after any sequence of Row operations, on any content, the cached
\* length len() equals the number of grapheme clusters of the string.
C1_LenIsGraphemeCount == row.len = Len(Graphemes(row.string))

\* The case of C8: insert(c, ch) with c <= len(L), then delete(c).
C8_InsertThenDelete ==
    /\ LastTwo("insert", "delete")
    /\ hist[2].at = hist[1].at
    /\ hist[1].at <= hist[1].pre.len

C8_Restored ==
    /\ row.string = hist[1].pre.string
    /\ row.len = hist[1].pre.len

C8_OwnCluster ==
    LET L == hist[1].pre
        n == Len(Graphemes(L.string))
    IN /\ ~IsExtend(hist[1].c)
       /\ ~(hist[1].at = 0 /\ L.string # <<>> /\ IsExtend(L.string[1]))
       /\ \/ hist[1].at < n
          \/ hist[1].at = n /\ L.len = n

C9_ClusterIsOneUnit ==
    hist # <<>> =>
        LET g == Graphemes(Last.pre.string)
            c == Last.at
        IN /\ (Last.op = "delete" /\ c < Len(g) /\ Len(g[c + 1]) > 1) =>
                  row.string = Concat(SubSeq(g, 1, c)) \o Concat(SubSeq(g, c + 2, Len(g)))
           /\ (Last.op = "insert" /\ HasMultiCluster(Last.pre.string)) =>
                  \E k \in 0..Len(g) :
                      row.string = Concat(SubSeq(g, 1, k)) \o <<Last.c>>
                                       \o Concat(SubSeq(g, k + 1, Len(g)))

\* C10: after tail = L.split(c), L holds exactly graphemes [0, c) and tail
\* the graphemes from c onward; L.append(tail) then reconstructs L's
\* original string and length.
C10_SplitAppendRoundTrip ==
    /\ (hist # <<>> /\ Last.op = "split") =>
           LET g == Graphemes(Last.pre.string)
               k == Min(Last.at, Len(g))
           IN /\ Graphemes(row.string) = SubSeq(g, 1, k)
              /\ Graphemes(Last.ret.string) = SubSeq(g, k + 1, Len(g))
    /\ (LastTwo("split", "append") /\ hist[2].arg = hist[1].ret) =>
           /\ row.string = hist[1].pre.string
           /\ row.len = hist[1].pre.len

C10_Witness ==
    /\ LastTwo("split", "append")
    /\ hist[2].arg = hist[1].ret
    /\ hist[1].at > 0
    /\ hist[1].at < Len(Graphemes(hist[1].pre.string))
    /\ HasMultiCluster(hist[1].pre.string)
    /\ row.string = hist[1].pre.string

----------------------------------------------------------------------------
(* The document machine: a Document or a Doc, as opened or created, under  *)
(* any sequence of calls at any position.                                   *)

\* Texts of the file the runs open.
StartTexts ==
    { <<>>,
      <<"a", "b", NewLine>>,
      <<"a", "U+0301", NewLine, "b">> }

\* (impl, build): overflow checks only matter to Document::insert.
Variants == {<<"Document", "debug">>, <<"Document", "release">>, <<"Doc", "release">>}

\* Characters the runs insert into a document.
InsertChars == {"a", "U+0301", NewLine, "\r"}

Opened(filename, text) ==
    IF impl = "Document" THEN DocumentOpen(filename, text) ELSE DocOpen(filename, text)

\* The document as a value, and the calls by implementation.
D == [rows |-> rows, dirty |-> dirty, panic |-> FALSE]
F == [rows |-> rows, dirty |-> dirty, file_name |-> file_name,
      file_type |-> file_type, disk |-> disk]
Insert(d, at, c) == IF impl = "Document" THEN DocumentInsert(d, at, c) ELSE DocInsert(d, at, c)
InsertNewline(d, at) ==
    IF impl = "Document" THEN DocumentInsertNewline(d, at) ELSE DocInsertNewline(d, at)
Delete(d, at) == IF impl = "Document" THEN DocumentDelete(d, at) ELSE DocDelete(d, at)
Save(f, io) == IF impl = "Document" THEN DocumentSave(f, io) ELSE DocWriteOut(f, io)

\* Positions the runs call with: every row up to two past the last, and in
\* each row every column up to one past its len().
Positions ==
    UNION {{Pos(x, y) : x \in 0..(RowLenAt(rows, y) + 1)} : y \in 0..(Len(rows) + 2)}

\* A record of a call without the record of the call before it.
Forget(k) ==
    IF k.op = "new" THEN k
    ELSE [op |-> k.op, at |-> k.at, c |-> k.c, ok |-> k.ok, pre |-> k.pre]

\* The call before this one, kept when this call undoes it: a delete at the
\* position of the insert_newline before it.
Before(op, at) ==
    IF op = "delete" /\ call.op = "insert_newline" /\ call.at = at
    THEN Forget(call) ELSE [op |-> "none"]

\* The ghost record of a call: its arguments, the document before it, and
\* the record of the call it undoes.
DocCalled(op, at, c, ok) ==
    [op |-> op, at |-> at, c |-> c, ok |-> ok, pre |-> [rows |-> rows, dirty |-> dirty],
     prev |-> Before(op, at)]

InitDocument ==
    /\ \E v \in Variants : impl = v[1] /\ build = v[2]
    /\ \/ /\ rows = DocumentDefault.rows
          /\ dirty = DocumentDefault.dirty
          /\ file_name = DocumentDefault.file_name
          /\ file_type = DocumentDefault.file_type
          /\ disk = [n \in FileNames |-> NoFile]
       \/ \E text \in StartTexts :
             LET o == Opened("main.rs", text)
             IN /\ rows = o.rows
                /\ dirty = o.dirty
                /\ file_name = o.file_name
                /\ file_type = o.file_type
                /\ disk = [n \in FileNames |-> IF n = "main.rs" THEN FileOf(text) ELSE NoFile]
    /\ saved = Contents(rows)
    /\ panicked = FALSE
    /\ call = [op |-> "new"]
    /\ ncalls = 0

InitDoc == InitDocument /\ RowIdle /\ AppIdle

\* The thread is alive and the run is within its bound.
CanCall == ~panicked /\ ncalls < MaxCalls

Apply(d) ==
    /\ rows' = d.rows
    /\ dirty' = d.dirty
    /\ panicked' = d.panic
    /\ ncalls' = ncalls + 1
    /\ UNCHANGED <<impl, build, file_name, file_type, disk, saved, rowVars, appVars>>

InsertCall ==
    \E at \in Positions, c \in InsertChars :
        /\ CanCall
        /\ Apply(Insert(D, at, c))
        /\ call' = DocCalled("insert", at, c, TRUE)

InsertNewlineCall ==
    \E at \in Positions :
        /\ CanCall
        /\ Apply(InsertNewline(D, at))
        /\ call' = DocCalled("insert_newline", at, NewLine, TRUE)

DeleteCall ==
    \E at \in Positions :
        /\ CanCall
        /\ Apply(Delete(D, at))
        /\ call' = DocCalled("delete", at, "", TRUE)

\* The first call of a run may be the insert of a combining mark at the end
\* of the first row (row 0, or row 1 where Document::insert counts from 1);
\* the bound of the run counts the calls after it.
AccentCall ==
    \E y \in {0, 1} :
        LET at == Pos(RowLenAt(rows, 0), y)
            d == Insert(D, at, "U+0301")
        IN /\ call.op = "new"
           /\ rows # <<>>
           /\ rows' = d.rows
           /\ dirty' = d.dirty
           /\ panicked' = d.panic
           /\ call' = DocCalled("insert", at, "U+0301", TRUE)
           /\ UNCHANGED <<impl, build, file_name, file_type, disk, saved, ncalls,
                          rowVars, appVars>>

SaveCall ==
    \E io \in IoOutcomes(rows) :
        LET res == Save(F, io)
        IN /\ CanCall
           /\ dirty' = res.f.dirty
           /\ file_type' = res.f.file_type
           /\ disk' = res.f.disk
           /\ saved' = IF res.ok /\ file_name # NoName THEN Contents(rows) ELSE saved
           /\ ncalls' = ncalls + 1
           /\ call' = DocCalled("save", Pos(0, 0), "", res.ok)
           /\ UNCHANGED <<impl, build, rows, file_name, panicked, rowVars, appVars>>

NextDoc ==
    \/ AccentCall
    \/ InsertCall
    \/ InsertNewlineCall
    \/ DeleteCall
    \/ SaveCall

SpecDoc == InitDoc /\ [][NextDoc]_vars

TypeOKDoc ==
    /\ dirty \in BOOLEAN
    /\ panicked \in BOOLEAN
    /\ \A i \in 1..Len(rows) : rows[i].len >= Len(Graphemes(rows[i].string))

----------------------------------------------------------------------------
(* App of src/src/app.rs: the cursor, the scroll offset and the keys.      *)
(* App::run draws (ui calls update_bounds with the document area), returns *)
(* when should_quit is set, and otherwise processes one key event.  The    *)
(* status message is text for the user only and is left out.               *)

QUIT_TIMES == 0

\* Characters the runs type; 'f' is the key the Saving screen handles.
KeyChars == {"f", "U+0301"}

MoveKeys == {"Up", "Down", "Left", "Right", "PageUp", "PageDown", "End", "Home"}

\* The document area: ui gives it Constraint::Min(1) of the terminal's rows.
Rects == {[width |-> w, height |-> h] : w \in 1..MaxSide, h \in 1..MaxSide}

\* The match on the key in move_cursor: the cursor before x is clamped.
MovedCursor(cur, key, rs, terminal_height) ==
    LET height == Len(rs)
        width == RowLenAt(rs, cur.y)
    IN CASE key = "Up" -> Pos(cur.x, SaturatingSub(cur.y, 1))
         [] key = "Down" -> Pos(cur.x, IF cur.y < height THEN cur.y + 1 ELSE cur.y)
         [] key = "Left" -> IF cur.x > 0 THEN Pos(cur.x - 1, cur.y)
                            ELSE IF cur.y > 0 THEN Pos(RowLenAt(rs, cur.y - 1), cur.y - 1)
                            ELSE cur
         [] key = "Right" -> IF cur.x < width THEN Pos(cur.x + 1, cur.y)
                             ELSE IF cur.y < height THEN Pos(0, cur.y + 1)
                             ELSE cur
         [] key = "PageUp" -> Pos(cur.x, IF cur.y > terminal_height
                                         THEN SaturatingSub(cur.y, terminal_height) ELSE 0)
         [] key = "PageDown" -> Pos(cur.x, IF cur.y + terminal_height < height
                                           THEN cur.y + terminal_height ELSE height)
         [] key = "Home" -> Pos(0, cur.y)
         [] key = "End" -> Pos(width, cur.y)
         [] OTHER -> cur

\* Leaves x where the move put it.
ClampCursor_Skip(moved, rs) == moved

\* The end of move_cursor: x is clamped to the length of the new row.
ClampCursor(moved, rs) ==
    LET width == RowLenAt(rs, moved.y)
    IN IF moved.x > width THEN Pos(width, moved.y) ELSE moved

MoveCursor(cur, key, rs, terminal_height) ==
    ClampCursor(MovedCursor(cur, key, rs, terminal_height), rs)

\* Puts the cursor on the first line or column of the window when it was
\* beyond the far edge.
ScrollAxis_Recentre(c, off, size) ==
    IF c < off THEN c
    ELSE IF c >= off + size THEN c
    ELSE off

\* One axis of scroll.
ScrollAxis(c, off, size) ==
    IF c < off THEN c
    ELSE IF c >= off + size THEN SaturatingSub(c, size) + 1
    ELSE off

Scroll(cur, off, size) ==
    Pos(ScrollAxis(cur.x, off.x, size.width), ScrollAxis(cur.y, off.y, size.height))

\* What the prompt of write_out returns: a typed name, nothing (Enter or Esc
\* on an empty line), or the error of event::read.
PromptOutcomes == {[kind |-> "name", name |-> n] : n \in FileNames}
                     \cup {[kind |-> "none", name |-> NoName], [kind |-> "read_err", name |-> NoName]}

InitApp ==
    /\ impl = "Doc"
    /\ build = "release"
    /\ \/ /\ rows = DocumentDefault.rows
          /\ dirty = DocumentDefault.dirty
          /\ file_name = DocumentDefault.file_name
          /\ file_type = DocumentDefault.file_type
          /\ disk = [n \in FileNames |-> NoFile]
       \/ \E text \in StartTexts :
             LET o == DocOpen("main.rs", text)
             IN /\ rows = o.rows
                /\ dirty = o.dirty
                /\ file_name = o.file_name
                /\ file_type = o.file_type
                /\ disk = [n \in FileNames |-> IF n = "main.rs" THEN FileOf(text) ELSE NoFile]
    /\ saved = Contents(rows)
    /\ panicked = FALSE
    /\ call = [op |-> "new"]
    /\ ncalls = 0
    /\ cursor_position = Pos(0, 0)
    /\ offset = Pos(0, 0)
    /\ terminal_size = [width |-> 0, height |-> 0]
    /\ current_screen = "Main"
    /\ should_quit = FALSE
    /\ quit_times = QUIT_TIMES
    /\ pc = "draw"
    /\ highlighted_word = NoWord
    /\ prompt = NoPrompt
    /\ RowIdle

\* terminal.draw: update_bounds(chunk); then run returns if should_quit.
Draw ==
    \E rect \in Rects :
        /\ pc = "draw"
        /\ terminal_size' = rect
        /\ pc' = IF should_quit THEN "done" ELSE "key"
        /\ UNCHANGED <<rowVars, docVars, cursor_position, offset, current_screen,
                       should_quit, quit_times, highlighted_word, prompt>>

\* The end of process_keypress: scroll, and back to the top of the loop.
KeyDone(key, cur) ==
    /\ offset' = Scroll(cur, offset, terminal_size)
    /\ pc' = "draw"
    /\ ncalls' = ncalls + 1
    /\ call' = [op |-> key]
    /\ UNCHANGED <<rowVars, impl, build, terminal_size, highlighted_word, prompt>>

CanKey == pc = "key" /\ ncalls < MaxKeys

\* A document call of a key handler panicked: the thread unwinds.
KeyPanics(key, d) ==
    /\ panicked' = TRUE
    /\ pc' = "done"
    /\ dirty' = d.dirty
    /\ rows' = d.rows
    /\ ncalls' = ncalls + 1
    /\ call' = [op |-> key]
    /\ UNCHANGED <<rowVars, impl, build, terminal_size, file_name, file_type, disk, saved,
                   cursor_position, offset, current_screen, should_quit, quit_times,
                   highlighted_word, prompt>>

KeyCtrlX ==
    /\ CanKey /\ current_screen = "Main"
    /\ IF quit_times > 0
       THEN /\ quit_times' = quit_times - 1
            /\ pc' = "draw"
            /\ ncalls' = ncalls + 1
            /\ call' = [op |-> "CtrlX"]
            /\ UNCHANGED <<rowVars, impl, build, terminal_size, offset, should_quit,
                           highlighted_word, prompt>>
       ELSE /\ should_quit' = TRUE
            /\ UNCHANGED quit_times
            /\ KeyDone("CtrlX", cursor_position)
    /\ UNCHANGED <<rows, dirty, file_name, file_type, disk, saved, panicked,
                   cursor_position, current_screen>>

\* write_out: the Saving screen, the prompt when there is no name, the write.
KeyCtrlO ==
    \E typed \in PromptOutcomes, io \in IoOutcomes(rows) :
        /\ CanKey /\ current_screen = "Main"
        /\ file_name # NoName => typed.kind = "none"
        /\ IF file_name = NoName /\ typed.kind # "name"
           THEN /\ current_screen' = IF typed.kind = "read_err" THEN "Saving" ELSE "Main"
                /\ UNCHANGED <<dirty, file_name, file_type, disk, saved>>
           ELSE LET named == [F EXCEPT !.file_name = IF file_name = NoName
                                                     THEN typed.name ELSE file_name]
                    res == DocWriteOut(named, io)
                IN /\ current_screen' = IF file_name = NoName THEN "Main" ELSE "Saving"
                   /\ file_name' = named.file_name
                   /\ dirty' = res.f.dirty
                   /\ file_type' = res.f.file_type
                   /\ disk' = res.f.disk
                   /\ saved' = IF res.ok THEN Contents(rows) ELSE saved
        /\ KeyDone("CtrlO", cursor_position)
        /\ UNCHANGED <<rows, panicked, cursor_position, should_quit, quit_times>>

KeyEnter ==
    /\ CanKey /\ current_screen = "Main"
    /\ LET d == DocInsertNewline(D, cursor_position)
           cur == MoveCursor(cursor_position, "Right", d.rows, terminal_size.height)
       IN /\ rows' = d.rows
          /\ dirty' = d.dirty
          /\ cursor_position' = cur
          /\ KeyDone("Enter", cur)
    /\ UNCHANGED <<file_name, file_type, disk, saved, panicked, current_screen,
                   should_quit, quit_times>>

KeyChar ==
    \E c \in KeyChars :
        /\ CanKey /\ current_screen = "Main"
        /\ LET d == DocInsert(D, cursor_position, c)
               cur == MoveCursor(cursor_position, "Right", d.rows, terminal_size.height)
           IN /\ rows' = d.rows
              /\ dirty' = d.dirty
              /\ cursor_position' = cur
              /\ KeyDone("Char", cur)
        /\ UNCHANGED <<file_name, file_type, disk, saved, panicked, current_screen,
                       should_quit, quit_times>>

KeyDelete ==
    /\ CanKey /\ current_screen = "Main"
    /\ LET d == DocDelete(D, cursor_position)
       IN IF d.panic
          THEN KeyPanics("Delete", d)
          ELSE /\ rows' = d.rows
               /\ dirty' = d.dirty
               /\ KeyDone("Delete", cursor_position)
               /\ UNCHANGED <<file_name, file_type, disk, saved, panicked, cursor_position,
                              current_screen, should_quit, quit_times>>

KeyBackspace ==
    /\ CanKey /\ current_screen = "Main"
    /\ IF cursor_position.x > 0 \/ cursor_position.y > 0
       THEN LET cur == MoveCursor(cursor_position, "Left", rows, terminal_size.height)
                d == DocDelete(D, cur)
            IN IF d.panic
               THEN KeyPanics("Backspace", d)
               ELSE /\ rows' = d.rows
                    /\ dirty' = d.dirty
                    /\ cursor_position' = cur
                    /\ KeyDone("Backspace", cur)
                    /\ UNCHANGED <<file_name, file_type, disk, saved, panicked,
                                   current_screen, should_quit, quit_times>>
       ELSE /\ KeyDone("Backspace", cursor_position)
            /\ UNCHANGED <<rows, dirty, file_name, file_type, disk, saved, panicked,
                           cursor_position, current_screen, should_quit, quit_times>>

KeyMove ==
    \E key \in MoveKeys :
        /\ CanKey /\ current_screen = "Main"
        /\ cursor_position' = MoveCursor(cursor_position, key, rows, terminal_size.height)
        /\ KeyDone(key, MoveCursor(cursor_position, key, rows, terminal_size.height))
        /\ UNCHANGED <<rows, dirty, file_name, file_type, disk, saved, panicked,
                       current_screen, should_quit, quit_times>>

\* In the Saving screen only 'f' does anything: it moves the cursor right.
KeySaving ==
    \E isF \in BOOLEAN :
        /\ CanKey /\ current_screen = "Saving"
        /\ LET cur == IF isF
                      THEN MoveCursor(cursor_position, "Right", rows, terminal_size.height)
                      ELSE cursor_position
           IN /\ cursor_position' = cur
              /\ KeyDone(IF isF THEN "SavingF" ELSE "SavingOther", cur)
        /\ UNCHANGED <<rows, dirty, file_name, file_type, disk, saved, panicked,
                       current_screen, should_quit, quit_times>>

\* Any other key, and any event that is no key (mouse capture is on).
KeyOther ==
    /\ CanKey /\ current_screen = "Main"
    /\ KeyDone("Other", cursor_position)
    /\ UNCHANGED <<rows, dirty, file_name, file_type, disk, saved, panicked,
                   cursor_position, current_screen, should_quit, quit_times>>

Next ==
    \/ Draw
    \/ KeyCtrlX
    \/ KeyCtrlO
    \/ KeyEnter
    \/ KeyChar
    \/ KeyDelete
    \/ KeyBackspace
    \/ KeyMove
    \/ KeySaving
    \/ KeyOther

Init == InitApp

Spec == Init /\ [][Next]_vars

TypeOKApp ==
    /\ pc \in {"draw", "key", "done"}
    /\ current_screen \in {"Main", "Saving"}
    /\ cursor_position.x >= 0 /\ cursor_position.y >= 0
    /\ offset.x >= 0 /\ offset.y >= 0
    /\ \A i \in 1..Len(rows) : rows[i].len >= Len(Graphemes(rows[i].string))

----------------------------------------------------------------------------
(* Claims about the calls of Document and Doc, checked under SpecDoc. *)

\* C3: deleteChar (Doc::delete and Document::delete) at a row >= len(),
\* row == len() and the empty document included, is a silent no-op: the
\* rows are unchanged and the call does not panic.
C3_DeleteBeyondRowsIsNoOp ==
    (call.op = "delete" /\ call.at.y >= Len(call.pre.rows)) =>
        (~panicked /\ rows = call.pre.rows)

\* C4: insertChar (Document::insert and Doc::insert) accepts only rows
\* 0..=len(): at a row > len() it leaves rows and dirty unchanged and does
\* not panic; at a row in 0..=len(), row 0 included, it does not fail.
C4_InsertAcceptsRowsUpToLen ==
    call.op = "insert" =>
        /\ call.at.y > Len(call.pre.rows) =>
               (~panicked /\ rows = call.pre.rows /\ dirty = call.pre.dirty)
        /\ call.at.y <= Len(call.pre.rows) => ~panicked

\* The string of a row with c put at grapheme column x (at the end when x
\* is past the last cluster).
WithCharAt(string, x, c) ==
    LET g == Graphemes(string)
        k == Min(x, Len(g))
    IN Concat(SubSeq(g, 1, k)) \o <<c>> \o Concat(SubSeq(g, k + 1, Len(g)))

\* C5: Document::insert(position, c), c no newline: with position.row <
\* len() it inserts c at grapheme column position.column of the row at
\* index position.row and leaves every other row and the row count alone;
\* with position.row == len() it appends one new row whose content is c;
\* in both cases dirty becomes true.
C5_DocumentInsertPlacesChar ==
    (impl = "Document" /\ call.op = "insert" /\ call.c # NewLine
        /\ call.at.y <= Len(call.pre.rows)) =>
        LET old == Contents(call.pre.rows)
            y == call.at.y
        IN /\ ~panicked
           /\ dirty
           /\ Contents(rows) = IF y < Len(old)
                               THEN [old EXCEPT ![y + 1] = WithCharAt(@, call.at.x, call.c)]
                               ELSE Append(old, <<call.c>>)

----------------------------------------------------------------------------
(* Claims about App, checked under Spec. *)

\* C2: after any sequence of key-driven operations in App, the dirty flag
\* is true if and only if the row contents differ from the contents at the
\* last successful save (or at load / creation when never saved).
C2_DirtyIffChanged == dirty <=> (Contents(rows) # saved)

\* C6: after every key event processed by App, starting from the initial
\* state, 0 <= cursor.x <= length of the row at cursor.y (0 when cursor.y
\* == len()) and 0 <= cursor.y <= document.len().
C6_CursorWithinDocument ==
    /\ 0 <= cursor_position.y
    /\ cursor_position.y <= Len(rows)
    /\ 0 <= cursor_position.x
    /\ cursor_position.x <= RowLenAt(rows, cursor_position.y)

\* The cursor was moved down from a row with text onto the position past
\* the last line.
C6_Witness ==
    /\ call.op = "Down"
    /\ ncalls >= 2
    /\ Len(rows) > 0
    /\ cursor_position.y = Len(rows)
    /\ rows[Len(rows)].len > 0

Abs(n) == IF n < 0 THEN -n ELSE n

InWindow(cur, off, size) ==
    /\ off.y <= cur.y /\ cur.y < off.y + size.height
    /\ off.x <= cur.x /\ cur.x < off.x + size.width

\* The offset of one axis moved from off to off2 no further than any offset
\* that shows c, and not at all when off already shows c.
MinimalMove(c, off, off2, size) ==
    IF off <= c /\ c < off + size
    THEN off2 = off
    ELSE \A o \in 0..c : (o <= c /\ c < o + size) => Abs(off2 - off) <= Abs(o - off)

\* C7: after every key event processed by App::process_keypress the cursor
\* lies inside the visible window on both axes, and an offset component
\* changes only when the cursor was outside the window on that axis, by
\* the least amount that brings it in (document area of at least 1 x 1).
C7_ScrollKeepsCursorVisible ==
    [][(pc = "key" /\ pc' = "draw") =>
          /\ InWindow(cursor_position', offset', terminal_size')
          /\ MinimalMove(cursor_position'.x, offset.x, offset'.x, terminal_size'.width)
          /\ MinimalMove(cursor_position'.y, offset.y, offset'.y, terminal_size'.height)]_vars

\* A key event has left the window scrolled on both axes.
C7_Witness ==
    /\ pc = "draw"
    /\ ncalls > 0
    /\ offset.x > 0
    /\ offset.y > 0
    /\ InWindow(cursor_position, offset, terminal_size)

----------------------------------------------------------------------------
(* More claims about the calls of Document and Doc, checked under SpecDoc. *)

\* The string of a row cut at grapheme column x: the head and the tail.
HeadAt(string, x) ==
    LET g == Graphemes(string) IN Concat(SubSeq(g, 1, Min(x, Len(g))))
TailAt(string, x) ==
    LET g == Graphemes(string) IN Concat(SubSeq(g, Min(x, Len(g)) + 1, Len(g)))

\* C11: insert_newline(position): with position.row > len() nothing
\* changes; with position.row == len() exactly one empty row is appended;
\* with position.row < len() the target row keeps columns [0, column), its
\* tail becomes a new row at index row + 1, every other row keeps content
\* and order, and len() grows by exactly 1.
C11_InsertNewlineSplitsRow ==
    call.op = "insert_newline" =>
        LET old == Contents(call.pre.rows)
            y == call.at.y
            x == call.at.x
        IN /\ ~panicked
           /\ y > Len(old) => (rows = call.pre.rows /\ dirty = call.pre.dirty)
           /\ y = Len(old) => (Contents(rows) = Append(old, <<>>) /\ rows[Len(rows)].len = 0)
           /\ y < Len(old) =>
                  /\ Len(rows) = Len(old) + 1
                  /\ Contents(rows) = SubSeq(old, 1, y)
                                          \o <<HeadAt(old[y + 1], x), TailAt(old[y + 1], x)>>
                                          \o SubSeq(old, y + 2, Len(old))

\* A row with a row after it was split strictly inside.
C11_Witness ==
    /\ call.op = "insert_newline"
    /\ call.at.y + 1 < Len(call.pre.rows)
    /\ 0 < call.at.x
    /\ call.at.x < Len(Graphemes(call.pre.rows[call.at.y + 1].string))
    /\ Len(rows) = Len(call.pre.rows) + 1

\* The string of a row without the grapheme at column x (unchanged when x
\* is at or past the last cluster).
WithoutAt(string, x) ==
    LET g == Graphemes(string)
    IN IF x >= Len(g) THEN string
       ELSE Concat(SubSeq(g, 1, x)) \o Concat(SubSeq(g, x + 2, Len(g)))

\* C12: deleteChar(position) with position.row < len(): when
\* position.column equals the row's len() and a next row exists, the next
\* row's content is appended to the row and the next row removed, so len()
\* shrinks by exactly 1; otherwise only the grapheme at position.column of
\* the row is removed (nothing at or past the row's end) and len() is
\* unchanged; the other rows are unchanged.
C12_DeleteRemovesOrMerges ==
    (call.op = "delete" /\ call.at.y < Len(call.pre.rows)) =>
        LET old == Contents(call.pre.rows)
            y == call.at.y
            x == call.at.x
        IN /\ ~panicked
           /\ IF x = call.pre.rows[y + 1].len /\ y + 1 < Len(old)
              THEN Contents(rows) = SubSeq(old, 1, y) \o <<old[y + 1] \o old[y + 2]>>
                                        \o SubSeq(old, y + 3, Len(old))
              ELSE Contents(rows) = [old EXCEPT ![y + 1] = WithoutAt(@, x)]

\* A row that holds a multi-code-point cluster took in the row after it.
C12_Witness ==
    /\ call.op = "delete"
    /\ call.at.y + 1 < Len(call.pre.rows)
    /\ call.at.x = call.pre.rows[call.at.y + 1].len
    /\ HasMultiCluster(call.pre.rows[call.at.y + 1].string)
    /\ call.pre.rows[call.at.y + 2].len > 0
    /\ Len(rows) = Len(call.pre.rows) - 1

\* The case of C13: insert_newline(p) with p.row < len() and p.column <=
\* len() of row p.row, then delete at the same position.
C13_NewlineThenDelete ==
    /\ call.op = "delete"
    /\ call.prev.op = "insert_newline"
    /\ call.prev.at.y < Len(call.prev.pre.rows)
    /\ call.prev.at.x <= call.prev.pre.rows[call.prev.at.y + 1].len

\* The row contents, the row lengths and the row count are those before
\* the insert_newline.
C13_Restored ==
    /\ ~panicked
    /\ Len(rows) = Len(call.prev.pre.rows)
    /\ \A i \in 1..Len(rows) :
           /\ rows[i].string = call.prev.pre.rows[i].string
           /\ rows[i].len = call.prev.pre.rows[i].len

\* C13: for every document and position p with p.row < len() and p.column
\* <= length of row p.row, insert_newline(p) followed by deleteChar at
\* (p.row, p.column) restores the original row contents, row lengths and
\* row count.
C13_NewlineDeleteRestores == C13_NewlineThenDelete => C13_Restored

\* C14: save() (Document::save, Doc::write_out) on a document whose file
\* name is unset returns an error rather than success and changes nothing;
\* dirty is cleared only when a save with a name wrote every row, and a
\* failed save leaves dirty unchanged.
C14_SaveWithoutNameFails ==
    call.op = "save" =>
        /\ file_name = NoName => (~call.ok /\ dirty = call.pre.dirty)
        /\ ~call.ok => dirty = call.pre.dirty
        /\ (call.pre.dirty /\ ~dirty) =>
               /\ call.ok
               /\ file_name # NoName
               /\ disk[file_name] = FileOf(Concat(WriteUnits(rows)))

\* C15: for every document reachable by editing, a successful save (each
\* row's content followed by one newline, in row order) followed by a load
\* of the same file yields a document with the same number of rows and
\* row-for-row identical content, with dirty == false.
C15_SaveLoadRoundTrip ==
    (call.op = "save" /\ call.ok /\ file_name # NoName) =>
        LET o == Opened(file_name, disk[file_name].text)
        IN /\ disk[file_name].exists
           /\ Len(o.rows) = Len(rows)
           /\ Contents(o.rows) = Contents(rows)
           /\ ~o.dirty

----------------------------------------------------------------------------
(* More claims about App, checked under Spec. *)

\* C16: whenever the document's file name changes (load, or save-as
\* setting a new name), once the operation has completed file_type is the
\* type derived from the new name: in every state between operations
\* file_type == FileType::from(file_name), or the default type when there
\* is no name.
C16_FileTypeFollowsName ==
    file_type = IF file_name = NoName THEN FileTypeDefault ELSE FileTypeFrom(file_name)

----------------------------------------------------------------------------
(* Highlighting of src/src/row.rs and src/src/filetype.rs.  A string is   *)
(* its sequence of chars; byte offsets are those of its UTF-8 encoding.   *)

\* char::len_utf8 of the chars of the model: U+0301 takes two bytes, the
\* others are ASCII.
Utf8Len(c) == IF c = "U+0301" THEN 2 ELSE 1

\* str::len: the length in bytes.
RECURSIVE ByteLen(_)
ByteLen(s) == IF s = <<>> THEN 0 ELSE Utf8Len(Head(s)) + ByteLen(Tail(s))

\* The byte offset of the char with index i (0-based; i = Len(s): the end).
ByteOffset(s, i) == ByteLen(SubSeq(s, 1, i))

\* str::is_char_boundary.
IsCharBoundary(s, b) == \E i \in 0..Len(s) : ByteOffset(s, i) = b

\* &s[b..] for a char boundary b.
SliceFrom(s, b) ==
    LET i == CHOOSE j \in 0..Len(s) : ByteOffset(s, j) = b
    IN SubSeq(s, i + 1, Len(s))

None == -1

\* str::find and str::rfind: the byte offset of the first (last) occurrence
\* of pat, or None.
Occurrences(s, pat) ==
    {i \in 0..(Len(s) - Len(pat)) : SubSeq(s, i + 1, i + Len(pat)) = pat}
StrFind(s, pat) ==
    IF Occurrences(s, pat) = {} THEN None
    ELSE ByteOffset(s, CHOOSE i \in Occurrences(s, pat) : \A j \in Occurrences(s, pat) : i <= j)
StrRFind(s, pat) ==
    IF Occurrences(s, pat) = {} THEN None
    ELSE ByteOffset(s, CHOOSE i \in Occurrences(s, pat) : \A j \in Occurrences(s, pat) : i >= j)

\* char::is_ascii_digit, char::is_ascii_punctuation, char::is_ascii_whitespace
\* (U+0060 is the grave accent).
IsAsciiDigit(c) == c \in {"0", "1", "2", "3", "4", "5", "6", "7", "8", "9"}
IsAsciiPunctuation(c) ==
    c \in {
      "!", "\"", "#", "$", "%", "&", "'", "(", ")", "*", "+", ",",
      "-", ".", "/", ":", ";", "<", "=", ">", "?", "@", "[", "\\",
      "]", "^", "_", "U+0060", "{", "|", "}", "~"}
IsAsciiWhitespace(c) == c \in {" ", "\t", "\n", "\f", "\r"}
is_separator(c) == IsAsciiPunctuation(c) \/ IsAsciiWhitespace(c)

\* HighlightingOptions::default and the options of FileType::from for a
\* name with the extension rs.
DefaultOptions ==
    [numbers |-> FALSE, strings |-> FALSE, characters |-> FALSE, comments |-> FALSE,
     multiline_comments |-> FALSE, primary_keywords |-> <<>>, secondary_keywords |-> <<>>]
RustPrimaryKeywords ==
    <<
      <<"a", "s">>, <<"b", "r", "e", "a", "k">>, <<"c", "o", "n", "s", "t">>,
      <<"c", "o", "n", "t", "i", "n", "u", "e">>,
      <<"c", "r", "a", "t", "e">>, <<"e", "l", "s", "e">>,
      <<"e", "n", "u", "m">>, <<"e", "x", "t", "e", "r", "n">>,
      <<"f", "a", "l", "s", "e">>, <<"f", "n">>, <<"f", "o", "r">>,
      <<"i", "f">>, <<"i", "m", "p", "l">>, <<"i", "n">>, <<"l", "e", "t">>,
      <<"l", "o", "o", "p">>, <<"m", "a", "t", "c", "h">>, <<"m", "o", "d">>,
      <<"m", "o", "v", "e">>, <<"m", "u", "t">>, <<"p", "u", "b">>,
      <<"r", "e", "f">>, <<"r", "e", "t", "u", "r", "n">>,
      <<"s", "e", "l", "f">>, <<"S", "e", "l", "f">>,
      <<"s", "t", "a", "t", "i", "c">>, <<"s", "t", "r", "u", "c", "t">>,
      <<"s", "u", "p", "e", "r">>, <<"t", "r", "a", "i", "t">>,
      <<"t", "r", "u", "e">>, <<"t", "y", "p", "e">>,
      <<"u", "n", "s", "a", "f", "e">>, <<"u", "s", "e">>,
      <<"w", "h", "e", "r", "e">>, <<"w", "h", "i", "l", "e">>,
      <<"d", "y", "n">>, <<"a", "b", "s", "t", "r", "a", "c", "t">>,
      <<"b", "e", "c", "o", "m", "e">>, <<"b", "o", "x">>, <<"d", "o">>,
      <<"f", "i", "n", "a", "l">>, <<"m", "a", "c", "r", "o">>,
      <<"o", "v", "e", "r", "r", "i", "d", "e">>, <<"p", "r", "i", "v">>,
      <<"t", "y", "p", "e", "o", "f">>,
      <<"u", "n", "s", "i", "z", "e", "d">>,
      <<"v", "i", "r", "t", "u", "a", "l">>, <<"y", "i", "e", "l", "d">>,
      <<"a", "s", "y", "n", "c">>, <<"a", "w", "a", "i", "t">>,
      <<"t", "r", "y">>
    >>
RustSecondaryKeywords ==
    <<
      <<"b", "o", "o", "l">>, <<"c", "h", "a", "r">>, <<"i", "8">>,
      <<"i", "1", "6">>, <<"i", "3", "2">>, <<"i", "6", "4">>,
      <<"i", "s", "i", "z", "e">>, <<"u", "8">>, <<"u", "1", "6">>,
      <<"u", "3", "2">>, <<"u", "6", "4">>, <<"u", "s", "i", "z", "e">>,
      <<"f", "3", "2">>, <<"f", "6", "4">>
    >>
RustOptions ==
    [numbers |-> TRUE, strings |-> TRUE, characters |-> TRUE, comments |-> TRUE,
     multiline_comments |-> TRUE, primary_keywords |-> RustPrimaryKeywords,
     secondary_keywords |-> RustSecondaryKeywords]

\* highlighting::Type.
Types == {"None", "Number", "Match", "String", "Character", "Comment",
          "MultilineComment", "PrimaryKeywords", "SecondaryKeywords"}

\* Vec::push of one tag n times.
Push(hl, hl_type, n) == hl \o [i \in 1..n |-> hl_type]

\* What a highlight_* method did to self.highlighting and *index: st is
\* [hl, index]; the result adds hit (the bool it returned) and panic.
Miss(st) == [hit |-> FALSE, hl |-> st.hl, index |-> st.index, panic |-> FALSE]
Hit(hl, index) == [hit |-> TRUE, hl |-> hl, index |-> index, panic |-> FALSE]
Panicked(st) == [hit |-> FALSE, hl |-> st.hl, index |-> st.index, panic |-> TRUE]

\* The least index j in from..Len(chars) (0-based) at which the scan of a
\* loop stops: the char there is in stops, or j is the end of the chars.
StopIndex(chars, from, stops) ==
    CHOOSE j \in from..Len(chars) :
        /\ j = Len(chars) \/ chars[j + 1] \in stops
        /\ \A k \in from..(j - 1) : chars[k + 1] \notin stops

RowHighlightStr(st, substring, chars, hl_type) ==
    IF substring = <<>> THEN Miss(st)
    ELSE IF \A k \in 0..(Len(substring) - 1) :
                /\ st.index + k < Len(chars)
                /\ chars[st.index + k + 1] = substring[k + 1]
    THEN Hit(Push(st.hl, hl_type, ByteLen(substring)), st.index + ByteLen(substring))
    ELSE Miss(st)

\* The loop of highlight_keyword over the keywords from number k on.
RECURSIVE RowHighlightKeywordFrom(_, _, _, _, _)
RowHighlightKeywordFrom(st, chars, keywords, k, hl_type) ==
    IF k > Len(keywords) THEN Miss(st)
    ELSE LET word == keywords[k]
             skipped == /\ st.index < SaturatingSub(Len(chars), ByteLen(word))
                        /\ ~is_separator(chars[st.index + ByteLen(word) + 1])
             res == RowHighlightStr(st, word, chars, hl_type)
         IN IF res.hit /\ ~skipped THEN res
            ELSE RowHighlightKeywordFrom(st, chars, keywords, k + 1, hl_type)

RowHighlightKeyword_AnyBefore(st, chars, keywords, hl_type) ==
    RowHighlightKeywordFrom(st, chars, keywords, 1, hl_type)

RowHighlightKeyword(st, chars, keywords, hl_type) ==
    IF st.index > 0 /\ ~is_separator(chars[st.index]) THEN Miss(st)
    ELSE RowHighlightKeywordFrom(st, chars, keywords, 1, hl_type)

RowHighlightPrimaryKeyword(st, opts, chars) ==
    RowHighlightKeyword(st, chars, opts.primary_keywords, "PrimaryKeywords")

RowHighlightSecondaryKeyword(st, opts, chars) ==
    RowHighlightKeyword(st, chars, opts.secondary_keywords, "SecondaryKeywords")

RowHighlightChar(st, opts, c, chars) ==
    IF opts.characters /\ c = "'" /\ st.index + 1 < Len(chars)
    THEN LET closing_index == IF chars[st.index + 2] = "\\"
                              THEN st.index + 3 ELSE st.index + 2
         IN IF closing_index < Len(chars) /\ chars[closing_index + 1] = "'"
            THEN Hit(Push(st.hl, "Character", closing_index - st.index + 1),
                     closing_index + 1)
            ELSE Miss(st)
    ELSE Miss(st)

\* The loop stops at the first double quote after the opening one, with or
\* without a backslash before it, or at the end of the chars; one more tag
\* is pushed after the loop.
RowHighlightString(st, opts, c, chars) ==
    IF opts.strings /\ c = "\""
    THEN LET j == StopIndex(chars, st.index + 1, {"\""})
         IN Hit(Push(st.hl, "String", j - st.index + 1), j + 1)
    ELSE Miss(st)

RowHighlightComment(st, opts, c, chars) ==
    IF opts.comments /\ c = "/" /\ st.index < Len(chars)
          /\ st.index + 1 < Len(chars) /\ chars[st.index + 2] = "/"
    THEN Hit(Push(st.hl, "Comment", Len(chars) - st.index), Len(chars))
    ELSE Miss(st)

\* self.string[*index + 2..] takes the char index as a byte offset: the
\* slice panics when that byte is inside a char.
RowHighlightMultilineComment(string, st, opts, c, chars) ==
    IF opts.multiline_comments /\ c = "/" /\ st.index < Len(chars)
          /\ st.index + 1 < Len(chars) /\ chars[st.index + 2] = "*"
    THEN IF ~IsCharBoundary(string, st.index + 2) THEN Panicked(st)
         ELSE LET found == StrFind(SliceFrom(string, st.index + 2), <<"*", "/">>)
                  closing_index == IF found = None THEN Len(chars)
                                   ELSE st.index + found + 4
                  n == IF closing_index > st.index THEN closing_index - st.index ELSE 0
              IN Hit(Push(st.hl, "MultilineComment", n), st.index + n)
    ELSE Miss(st)

RowHighlightNumber(st, opts, c, chars) ==
    IF opts.numbers /\ IsAsciiDigit(c)
    THEN IF st.index > 0 /\ ~is_separator(chars[st.index]) THEN Miss(st)
         ELSE LET j == CHOOSE j \in (st.index + 1)..Len(chars) :
                           /\ j = Len(chars)
                                \/ (chars[j + 1] # "." /\ ~IsAsciiDigit(chars[j + 1]))
                           /\ \A k \in (st.index + 1)..(j - 1) :
                                  chars[k + 1] = "." \/ IsAsciiDigit(chars[k + 1])
              IN Hit(Push(st.hl, "Number", j - st.index), j)
    ELSE Miss(st)


\* Row::find: the grapheme index of the first (Forward) or last (Backward)
\* occurrence of query in the graphemes [at, len) or [0, at), or None; an
\* occurrence that does not begin a grapheme gives None.
RowFind(r, query, at, direction) ==
    IF at > r.len \/ query = <<>> THEN None
    ELSE LET start == IF direction = "Forward" THEN at ELSE 0
             end == IF direction = "Forward" THEN r.len ELSE at
             g == Graphemes(r.string)
             taken == SubSeq(g, start + 1, Min(end, Len(g)))
             substring == Concat(taken)
             matching_byte_index == IF direction = "Forward"
                                    THEN StrFind(substring, query)
                                    ELSE StrRFind(substring, query)
             indices == Graphemes(substring)
             at_grapheme == {k \in 0..(Len(indices) - 1) :
                                ByteLen(Concat(SubSeq(indices, 1, k))) = matching_byte_index}
         IN IF matching_byte_index = None \/ at_grapheme = {} THEN None
            ELSE start + CHOOSE k \in at_grapheme : TRUE

\* The loop of highlight_match from grapheme index index on: the tags of
\* each occurrence become Match; writing past the end of the tags panics.
RECURSIVE RowHighlightMatchFrom(_, _, _, _)
RowHighlightMatchFrom(r, hl, word, index) ==
    LET search_match == RowFind(r, word, index, "Forward")
        next_index == search_match + Len(Graphemes(word))
    IN IF search_match = None THEN [hl |-> hl, panic |-> FALSE]
       ELSE IF next_index > Len(hl) THEN [hl |-> hl, panic |-> TRUE]
       ELSE RowHighlightMatchFrom(
                r,
                [i \in 1..Len(hl) |->
                    IF search_match < i /\ i <= next_index THEN "Match" ELSE hl[i]],
                word, next_index)

RowHighlightMatch(r, hl, word) ==
    IF ~word.some \/ word.v = <<>> THEN [hl |-> hl, panic |-> FALSE]
    ELSE RowHighlightMatchFrom(r, hl, word.v, 0)

\* The while loop of highlight: the scan from st.index to the end of the
\* chars.  The result is [hl, in_ml_comment, panic].
RECURSIVE RowHighlightScan(_, _, _, _)
RowHighlightScan(string, opts, st, in_ml_comment) ==
    IF st.index >= Len(string)
    THEN [hl |-> st.hl, in_ml_comment |-> in_ml_comment, panic |-> FALSE]
    ELSE LET chars == string
             c == chars[st.index + 1]
             ml == RowHighlightMultilineComment(string, st, opts, c, chars)
             ch == RowHighlightChar(st, opts, c, chars)
             co == RowHighlightComment(st, opts, c, chars)
             pk == RowHighlightPrimaryKeyword(st, opts, chars)
             sk == RowHighlightSecondaryKeyword(st, opts, chars)
             sr == RowHighlightString(st, opts, c, chars)
             nu == RowHighlightNumber(st, opts, c, chars)
             next == IF ch.hit THEN ch ELSE IF co.hit THEN co ELSE IF pk.hit THEN pk
                     ELSE IF sk.hit THEN sk ELSE IF sr.hit THEN sr ELSE IF nu.hit THEN nu
                     ELSE Hit(Push(st.hl, "None", 1), st.index + 1)
         IN IF ml.panic
            THEN [hl |-> st.hl, in_ml_comment |-> in_ml_comment, panic |-> TRUE]
            ELSE IF ml.hit
            THEN RowHighlightScan(string, opts, [hl |-> ml.hl, index |-> ml.index], TRUE)
            ELSE RowHighlightScan(string, opts, [hl |-> next.hl, index |-> next.index],
                                  in_ml_comment)

\* Row::highlight(opts, word, start_with_comment): the row after the call,
\* ret (the bool returned) and panic.  &self.string[len - 2..] panics when
\* that byte is inside a char.
RowHighlight(r, opts, word, start_with_comment) ==
    IF r.is_highlighted /\ ~word.some
    THEN [self |-> r, ret |-> FALSE, panic |-> FALSE]
    ELSE LET chars == r.string
             found == StrFind(r.string, <<"*", "/">>)
             closing_index == IF found = None THEN Len(chars) ELSE found + 2
             st0 == IF start_with_comment
                    THEN [hl |-> Push(<<>>, "MultilineComment", closing_index),
                          index |-> closing_index]
                    ELSE [hl |-> <<>>, index |-> 0]
             scan == RowHighlightScan(r.string, opts, st0, start_with_comment)
             matched == RowHighlightMatch(r, scan.hl, word)
             from == SaturatingSub(ByteLen(r.string), 2)
         IN IF scan.panic
            THEN [self |-> [r EXCEPT !.highlighting = scan.hl], ret |-> FALSE, panic |-> TRUE]
            ELSE IF matched.panic
            THEN [self |-> [r EXCEPT !.highlighting = matched.hl], ret |-> FALSE,
                  panic |-> TRUE]
            ELSE LET done == [r EXCEPT !.highlighting = matched.hl]
                 IN IF ~scan.in_ml_comment
                    THEN [self |-> [done EXCEPT !.is_highlighted = TRUE],
                          ret |-> FALSE, panic |-> FALSE]
                    ELSE IF ~IsCharBoundary(r.string, from)
                    THEN [self |-> done, ret |-> FALSE, panic |-> TRUE]
                    ELSE IF SliceFrom(r.string, from) # <<"*", "/">>
                    THEN [self |-> done, ret |-> TRUE, panic |-> FALSE]
                    ELSE [self |-> [done EXCEPT !.is_highlighted = TRUE],
                          ret |-> FALSE, panic |-> FALSE]

----------------------------------------------------------------------------
(* The highlight machine: one Row of row.rs, built from a line, under any  *)
(* sequence of highlight and unhighlight calls.                            *)

\* Chars of the lines: the comment delimiters, the double quote, a letter
\* and the two-byte combining mark.
HlChars == {"/", "*", "\"", "a", "U+0301"}

\* All strings over HlChars of length at most n.
RECURSIVE HlStringsUpTo(_)
HlStringsUpTo(n) ==
    IF n = 0 THEN {<<>>}
    ELSE LET shorter == HlStringsUpTo(n - 1)
         IN shorter \cup {Append(s, c) : s \in {t \in shorter : Len(t) = n - 1}, c \in HlChars}

\* Longer lines: a block comment closed before trailing text, and the
\* same with a two-byte char in the comment.
SampleLines ==
    { <<"/", "*", "*", "/", "a">>,
      <<"/", "*", "U+0301", "*", "/", "a">> }

HlTexts == HlStringsUpTo(MaxLine) \cup SampleLines

\* The rule sets of the program, by FileType::name, and the search words.
OptionsOf(name) == IF name = "Rust" THEN RustOptions ELSE DefaultOptions
HlWords == {NoWord, Word(<<"a">>)}

\* The ghost record of a highlight call: its arguments, whether it
\* recomputed the tags (no return from the cache), and what it returned.
Highlighted(name, word, start_with_comment, ret) ==
    [op |-> "highlight", opts |-> name, word |-> word,
     start_with_comment |-> start_with_comment,
     recomputed |-> ~(row.is_highlighted /\ ~word.some), ret |-> ret]

InitHl ==
    /\ rimpl = "row"
    /\ \E text \in HlTexts : row = RowFrom(text)
    /\ hist = <<>>
    /\ DocIdle
    /\ AppIdle

HighlightCall ==
    \E name \in {"Rust", FileTypeDefault}, word \in HlWords, start_with_comment \in BOOLEAN :
        LET res == RowHighlight(row, OptionsOf(name), word, start_with_comment)
        IN /\ ~panicked
           /\ row' = res.self
           /\ panicked' = res.panic
           /\ hist' = <<Highlighted(name, word, start_with_comment, res.ret)>>
           /\ UNCHANGED <<rimpl, impl, build, rows, dirty, file_name, file_type, call,
                          ncalls, disk, saved, appVars>>

UnhighlightCall ==
    /\ ~panicked
    /\ row.is_highlighted
    /\ row' = RowUnhighlight(row)
    /\ hist' = <<[op |-> "unhighlight"]>>
    /\ UNCHANGED <<rimpl, docVars, appVars>>

NextHl ==
    \/ HighlightCall
    \/ UnhighlightCall

SpecHl == InitHl /\ [][NextHl]_vars

----------------------------------------------------------------------------
(* Claims about Row::highlight, checked under SpecHl. *)

\* C17: Row::highlight completes without failure (no panic, no
\* out-of-range index or string slice) for every line content, rule set,
\* search word and carried-comment flag, including lines with multi-byte
\* characters and unterminated literals and block comments.
C17_HighlightNeverFails ==
    (hist # <<>> /\ hist[1].op = "highlight") => ~panicked

\* C18: whenever Row::highlight recomputes a row, the resulting tag
\* sequence has exactly one tag per grapheme of the row (its length equals
\* len()), for every line content, including lines with an unterminated
\* string literal and lines with multi-code-point graphemes.
C18_OneTagPerGrapheme ==
    (hist # <<>> /\ hist[1].op = "highlight" /\ hist[1].recomputed /\ ~panicked) =>
        /\ Len(row.highlighting) = Len(Graphemes(row.string))
        /\ Len(row.highlighting) = row.len

\* The char index (0-based) of the first occurrence of pat in chars at or
\* after from, or None.
IndexOfFrom(chars, pat, from) ==
    LET at == {i \in from..(Len(chars) - Len(pat)) : SubSeq(chars, i + 1, i + Len(pat)) = pat}
    IN IF at = {} THEN None ELSE CHOOSE i \in at : \A j \in at : i <= j

\* Whether a line ends inside a block comment that is not terminated: one
\* carried in (inside) and not closed, or one opened on the line outside
\* string literals and line comments and not closed before the end.
RECURSIVE EndsInBlockComment(_, _, _)
EndsInBlockComment(chars, i, inside) ==
    IF inside
    THEN LET closing == IndexOfFrom(chars, <<"*", "/">>, i)
         IN IF closing = None THEN TRUE
            ELSE EndsInBlockComment(chars, closing + 2, FALSE)
    ELSE IF i >= Len(chars) THEN FALSE
    ELSE IF SubSeq(chars, i + 1, Min(i + 2, Len(chars))) = <<"/", "*">>
    THEN EndsInBlockComment(chars, i + 2, TRUE)
    ELSE IF SubSeq(chars, i + 1, Min(i + 2, Len(chars))) = <<"/", "/">>
    THEN FALSE
    ELSE IF chars[i + 1] = "\""
    THEN LET closing == IndexOfFrom(chars, <<"\"">>, i + 1)
         IN IF closing = None THEN FALSE
            ELSE EndsInBlockComment(chars, closing + 1, FALSE)
    ELSE EndsInBlockComment(chars, i + 1, FALSE)

\* C19: with block comments enabled, a recomputing call of Row::highlight
\* returns true if and only if the line ends while still inside an
\* unterminated block comment (carried in and not closed on this line, or
\* opened on this line and not closed before the end of the line); it
\* returns false for a line whose last block comment is closed before
\* trailing text.
C19_ReturnsOpenComment ==
    (hist # <<>> /\ hist[1].op = "highlight" /\ hist[1].recomputed /\ ~panicked
        /\ OptionsOf(hist[1].opts).multiline_comments) =>
        (hist[1].ret <=> EndsInBlockComment(row.string, 0, hist[1].start_with_comment))

----------------------------------------------------------------------------
(* Document::highlight of src/src/document.rs, and the machine of a      *)
(* two-row Document under highlight and unhighlight_rows calls.          *)

\* until: Option<usize>.
NoUntil == [some |-> FALSE, v |-> 0]
Until(v) == [some |-> TRUE, v |-> v]

\* The for loop of highlight over rows[..until], from row i (1-based) on:
\* each row's returned flag is the next row's start_with_comment.  carried
\* is the flag passed to each row reached; a panic ends the loop.
RECURSIVE DocumentHighlightFrom(_, _, _, _, _, _, _)
DocumentHighlightFrom(rs, opts, word, i, until, start_with_comment, carried) ==
    IF i > until
    THEN [rows |-> rs, carried |-> carried, panic |-> FALSE]
    ELSE LET Step(res) ==
                 IF res.panic
                 THEN [rows |-> [rs EXCEPT ![i] = res.self],
                       carried |-> Append(carried, start_with_comment), panic |-> TRUE]
                 ELSE DocumentHighlightFrom([rs EXCEPT ![i] = res.self], opts, word, i + 1,
                                            until, res.ret,
                                            Append(carried, start_with_comment))
         IN Step(RowHighlight(rs[i], opts, word, start_with_comment))

DocumentHighlight(d, ft, word, until) ==
    LET upto == IF until.some
                THEN IF until.v + 1 < Len(d.rows) THEN until.v + 1 ELSE Len(d.rows)
                ELSE Len(d.rows)
    IN DocumentHighlightFrom(d.rows, OptionsOf(ft), word, 1, upto, FALSE, <<>>)

\* First lines of the documents: a block comment left open, at the start
\* or after text, one closed before trailing text, one whose opener is
\* followed by a slash, and a line without comment.
FirstLines ==
    { <<"/", "*">>, <<"a", "/", "*">>, <<"/", "*", "*", "/", "a">>, <<"/", "*", "/">>, <<"a">> }

\* Second lines: every short line, and a two-byte char before the closing
\* delimiter with text after it.
SecondLines == HlStringsUpTo(MaxLine) \cup { <<"U+0301", "*", "/", "a">> }

HlFileNames == {"main.rs", "notes.txt"}
\* refresh_screen passes Some(offset.y + height): the last row on screen.
Untils == {Until(0), Until(1)}

InitHlDoc ==
    /\ impl = "Document"
    /\ build = "release"
    /\ \E name \in HlFileNames, first \in FirstLines, second \in SecondLines :
          LET text == first \o <<NewLine>> \o second \o <<NewLine>>
              o == DocumentOpen(name, text)
          IN /\ rows = o.rows
             /\ dirty = o.dirty
             /\ file_name = o.file_name
             /\ file_type = o.file_type
             /\ disk = [n \in FileNames |-> IF n = name THEN FileOf(text) ELSE NoFile]
    /\ saved = Contents(rows)
    /\ panicked = FALSE
    /\ call = [op |-> "new"]
    /\ ncalls = 0
    /\ RowIdle
    /\ AppIdle

DocumentHighlightCall ==
    \E word \in HlWords, until \in Untils :
        \E d \in {DocumentHighlight(D, file_type, word, until)} :
           /\ ~panicked
           /\ ncalls < MaxCalls
           /\ ncalls' = ncalls + 1
           /\ rows' = d.rows
           /\ panicked' = d.panic
           /\ call' = [op |-> "highlight", word |-> word, until |-> until,
                       carried |-> d.carried,
                       cached |-> [i \in 1..Len(rows) |-> rows[i].is_highlighted]]
           /\ UNCHANGED <<impl, build, dirty, file_name, file_type, disk, saved,
                          rowVars, appVars>>

DocumentUnhighlightRowsCall ==
    \E start \in 0..2 :
        /\ ~panicked
        /\ ncalls < MaxCalls
        /\ ncalls' = ncalls + 1
        /\ \E i \in 1..Len(rows) : rows[i].is_highlighted
        /\ rows' = DocumentUnhighlightRows(D, start).rows
        /\ call' = [op |-> "unhighlight_rows", start |-> start]
        /\ UNCHANGED <<impl, build, dirty, file_name, file_type, panicked, disk,
                       saved, rowVars, appVars>>

NextHlDoc ==
    \/ DocumentHighlightCall
    \/ DocumentUnhighlightRowsCall

SpecHlDoc == InitHlDoc /\ [][NextHlDoc]_vars

----------------------------------------------------------------------------
(* Claims about Document::highlight, checked under SpecHlDoc. *)

\* The char index (0-based) of the opener of the block comment that a line
\* leaves open: opened outside string literals, line comments and earlier
\* block comments, and not closed before the end of the line; or None.
RECURSIVE OpenCommentAt(_, _)
OpenCommentAt(chars, i) ==
    IF i >= Len(chars) THEN None
    ELSE IF SubSeq(chars, i + 1, Min(i + 2, Len(chars))) = <<"/", "*">>
    THEN LET closing == IndexOfFrom(chars, <<"*", "/">>, i + 2)
         IN IF closing = None THEN i ELSE OpenCommentAt(chars, closing + 2)
    ELSE IF SubSeq(chars, i + 1, Min(i + 2, Len(chars))) = <<"/", "/">>
    THEN None
    ELSE IF chars[i + 1] = "\""
    THEN LET closing == IndexOfFrom(chars, <<"\"">>, i + 1)
         IN IF closing = None THEN None ELSE OpenCommentAt(chars, closing + 1)
    ELSE OpenCommentAt(chars, i + 1)

\* The tags the normal scan gives to a line on its own.
ScanTags(name, chars) == RowHighlight(RowFrom(chars), OptionsOf(name), NoWord, FALSE).self.highlighting

\* Row i as it was before the last highlight call: a call changes the
\* tags, which it recomputes from the string, and is_highlighted.
RowBefore(i) == [rows[i] EXCEPT !.is_highlighted = call.cached[i]]

\* A highlight call without search word that went over both rows of a
\* document with block comments, none of whose rows was cached.
C20_Case ==
    /\ call.op = "highlight" /\ ~call.word.some /\ ~panicked
    /\ Len(call.carried) = 2
    /\ OptionsOf(file_type).multiline_comments
    /\ \A i \in 1..2 : ~call.cached[i]

\* C20: Document::highlight processes the rows in order, starting with
\* carry false at row 0 and passing each row's returned flag as the next
\* row's start_with_comment; for a block comment opened on row n and
\* closed on row n+1, row n is tagged block-comment from the opener to the
\* end of the line, row n+1 is tagged block-comment from column 0 through
\* the closing delimiter inclusive, and the positions after the delimiter
\* are tagged by the normal scan, not as block-comment.
C20_CarriesBlockComment ==
    /\ (call.op = "highlight" /\ ~panicked) =>
          /\ call.carried # <<>> => ~call.carried[1]
          /\ \A i \in 2..Len(call.carried) :
                call.carried[i] = RowHighlight(RowBefore(i - 1), OptionsOf(file_type),
                                               call.word, call.carried[i - 1]).ret
    /\ C20_Case =>
          LET opener == OpenCommentAt(rows[1].string, 0)
              closing == IndexOfFrom(rows[2].string, <<"*", "/">>, 0)
              first == rows[1].highlighting
              second == rows[2].highlighting
              rest == SubSeq(rows[2].string, closing + 3, Len(rows[2].string))
          IN (opener # None /\ closing # None) =>
                /\ Len(first) = Len(rows[1].string)
                /\ \A k \in (opener + 1)..Len(first) : first[k] = "MultilineComment"
                /\ Len(second) = Len(rows[2].string)
                /\ \A k \in 1..(closing + 2) : second[k] = "MultilineComment"
                /\ SubSeq(second, closing + 3, Len(second)) = ScanTags(file_type, rest)

----------------------------------------------------------------------------
(* The keyword machine: one Row built from a line over the letters of    *)
(* the keyword "if", a blank and the combining mark, or from one of the  *)
(* longer lines around the keyword "for", under highlight and            *)
(* unhighlight calls.                                                      *)

KwChars == {"i", "f", " ", "U+0301"}

RECURSIVE KwStringsUpTo(_)
KwStringsUpTo(n) ==
    IF n = 0 THEN {<<>>}
    ELSE LET shorter == KwStringsUpTo(n - 1)
         IN shorter \cup {Append(s, c) : s \in {t \in shorter : Len(t) = n - 1}, c \in KwChars}

KwSamples ==
    { <<"f", "o", "r", "e", "v", "e", "r">>, <<"f", "o", "r", " ", "x">>,
      <<"x", "f", "o", "r">>, <<"f", "o", "r", "_", "x">>,
      <<"i", "8", " ", "i", "f">> }

KwTexts == KwStringsUpTo(MaxLine) \cup KwSamples

InitKw ==
    /\ rimpl = "row"
    /\ \E text \in KwTexts : row = RowFrom(text)
    /\ hist = <<>>
    /\ DocIdle
    /\ AppIdle

SpecKw == InitKw /\ [][NextHl]_vars

----------------------------------------------------------------------------
(* Claims about keywords, checked under SpecKw. *)

\* char::is_alphanumeric on the chars of the lines.
IsAlphanumeric(c) == c \in {"i", "f", "o", "r", "e", "v", "x", "8"}

Range(s) == {s[i] : i \in 1..Len(s)}

\* Position k (1-based) of chars lies in an occurrence of one of the
\* keywords that has no alphanumeric char right before it or right after.
InBoundedKeyword(chars, k, keywords) ==
    \E kw \in Range(keywords) :
        \E i \in 0..(Len(chars) - Len(kw)) :
            /\ i < k /\ k <= i + Len(kw)
            /\ SubSeq(chars, i + 1, i + Len(kw)) = kw
            /\ i = 0 \/ ~IsAlphanumeric(chars[i])
            /\ i + Len(kw) = Len(chars) \/ ~IsAlphanumeric(chars[i + Len(kw) + 1])

\* C21: a keyword of the rule set is tagged as a keyword only when the
\* chars right before and right after the span (if any) are both
\* non-alphanumeric: with primary keyword "for", the line "forever" gets
\* no primary-keyword tag and the line "for x" gets exactly its first
\* three positions tagged primary keyword.
C21_KeywordBoundaries ==
    (hist # <<>> /\ hist[1].op = "highlight" /\ hist[1].recomputed /\ ~panicked) =>
        LET opts == OptionsOf(hist[1].opts)
            hl == row.highlighting
        IN /\ \A k \in 1..Len(hl) :
                /\ hl[k] = "PrimaryKeywords" =>
                      InBoundedKeyword(row.string, k, opts.primary_keywords)
                /\ hl[k] = "SecondaryKeywords" =>
                      InBoundedKeyword(row.string, k, opts.secondary_keywords)
           /\ (hist[1].opts = "Rust" /\ row.string = <<"f", "o", "r", "e", "v", "e", "r">>) =>
                 "PrimaryKeywords" \notin Range(hl)
           /\ (hist[1].opts = "Rust" /\ row.string = <<"f", "o", "r", " ", "x">>
                  /\ ~hist[1].start_with_comment) =>
                 hl = <<"PrimaryKeywords", "PrimaryKeywords", "PrimaryKeywords", "None", "None">>

C21_Witness ==
    /\ hist # <<>> /\ hist[1].op = "highlight" /\ hist[1].recomputed /\ ~panicked
    /\ hist[1].opts = "Rust"
    /\ row.string = <<"f", "o", "r", " ", "x">>
    /\ row.highlighting = <<"PrimaryKeywords", "PrimaryKeywords", "PrimaryKeywords", "None", "None">>

----------------------------------------------------------------------------
(* The string-literal machine: one Row built from a line over the double *)
(* quote, the backslash and a letter, under highlight and unhighlight     *)
(* calls.                                                                  *)

StrChars == {"\"", "\\", "a"}

RECURSIVE StrStringsUpTo(_)
StrStringsUpTo(n) ==
    IF n = 0 THEN {<<>>}
    ELSE LET shorter == StrStringsUpTo(n - 1)
         IN shorter \cup {Append(s, c) : s \in {t \in shorter : Len(t) = n - 1}, c \in StrChars}

\* Longer lines: a literal with an escaped quote inside, and two literals.
StrSamples ==
    { <<"\"", "\\", "\"", "a", "\"">>, <<"\"", "a", "\"", "a", "\"", "\"">> }

StrTexts == StrStringsUpTo(MaxLine) \cup StrSamples

InitStr ==
    /\ rimpl = "row"
    /\ \E text \in StrTexts : row = RowFrom(text)
    /\ hist = <<>>
    /\ DocIdle
    /\ AppIdle

SpecStr == InitStr /\ [][NextHl]_vars

----------------------------------------------------------------------------
(* Claims about string literals, checked under SpecStr. *)

\* The char index (0-based) of the first double quote after index from
\* that has no backslash right before it, or None.
ClosingQuote(chars, from) ==
    LET at == {j \in (from + 1)..(Len(chars) - 1) : chars[j + 1] = "\"" /\ chars[j] # "\\"}
    IN IF at = {} THEN None ELSE CHOOSE j \in at : \A k \in at : j <= k

\* Every literal of chars from index i on, read with escapes, is tagged
\* String from its opening to its closing quote.
RECURSIVE LiteralsTagged(_, _, _)
LiteralsTagged(chars, hl, i) ==
    IF i >= Len(chars) THEN TRUE
    ELSE IF chars[i + 1] # "\"" THEN LiteralsTagged(chars, hl, i + 1)
    ELSE LET closing == ClosingQuote(chars, i)
         IN IF closing = None THEN TRUE
            ELSE /\ \A k \in (i + 1)..(closing + 1) : k <= Len(hl) /\ hl[k] = "String"
                 /\ LiteralsTagged(chars, hl, closing + 1)

\* C22: with strings enabled, a literal starts at a double quote and ends
\* at the next double quote that is not preceded by a backslash, so an
\* escaped quote inside the literal does not end it, and every position
\* from the opening to the closing quote is tagged String.
C22_StringsEscapeAware ==
    (hist # <<>> /\ hist[1].op = "highlight" /\ hist[1].recomputed /\ ~panicked
        /\ OptionsOf(hist[1].opts).strings /\ ~hist[1].start_with_comment
        /\ ~hist[1].word.some) =>
        LiteralsTagged(row.string, row.highlighting, 0)

----------------------------------------------------------------------------
(* Claims about the search-match overlay, checked under SpecHl. *)

\* The positions (1-based grapheme columns) covered by the non-overlapping
\* occurrences of the graphemes w in the graphemes g, found scanning
\* forward from column i (0-based).
RECURSIVE MatchColumns(_, _, _)
MatchColumns(g, w, i) ==
    IF i + Len(w) > Len(g) THEN {}
    ELSE IF SubSeq(g, i + 1, i + Len(w)) = w
    THEN ((i + 1)..(i + Len(w))) \cup MatchColumns(g, w, i + Len(w))
    ELSE MatchColumns(g, w, i + 1)

\* C23: when a non-empty search word is active, after Row::highlight every
\* non-overlapping occurrence of the word in the line, found scanning
\* forward from column 0, has all of its positions tagged Match whatever
\* tag the scan gave them, and no other position is tagged Match.
C23_MatchOverlay ==
    (hist # <<>> /\ hist[1].op = "highlight" /\ ~panicked
        /\ hist[1].word.some /\ hist[1].word.v # <<>>) =>
        LET columns == MatchColumns(Graphemes(row.string), Graphemes(hist[1].word.v), 0)
            hl == row.highlighting
        IN /\ \A k \in columns : k <= Len(hl) /\ hl[k] = "Match"
           /\ \A k \in 1..Len(hl) : hl[k] = "Match" => k \in columns

----------------------------------------------------------------------------
(* Document::find of src/src/document.rs, and the machine of a two-row   *)
(* Document under find calls.                                             *)

\* Option<Position>.
NoPosition == [some |-> FALSE, x |-> 0, y |-> 0]
SomePosition(x, y) == [some |-> TRUE, x |-> x, y |-> y]

\* The for loop of find: position is the row and column to search from,
\* left the number of iterations left.
RECURSIVE DocumentFindFrom(_, _, _, _, _)
DocumentFindFrom(rs, query, position, direction, left) ==
    IF left = 0 THEN NoPosition
    ELSE IF position.y >= Len(rs) THEN NoPosition
    ELSE LET Step(x) ==
                 IF x # None THEN SomePosition(x, position.y)
                 ELSE IF direction = "Forward"
                 THEN DocumentFindFrom(rs, query, Pos(0, position.y + 1), direction, left - 1)
                 ELSE LET y == SaturatingSub(position.y, 1)
                      IN DocumentFindFrom(rs, query, Pos(rs[y + 1].len, y), direction,
                                          left - 1)
         IN Step(RowFind(rs[position.y + 1], query, position.x, direction))

DocumentFind(rs, query, at, direction) ==
    IF at.y >= Len(rs) THEN NoPosition
    ELSE LET start == IF direction = "Forward" THEN at.y ELSE 0
             end == IF direction = "Forward" THEN Len(rs) ELSE at.y + 1
         IN DocumentFindFrom(rs, query, Pos(at.x, at.y), direction,
                             IF end > start THEN end - start ELSE 0)

\* The lines of the documents searched, and the documents: every pair of
\* short lines, and the two rows "a cat", "cat dog".
MaxFind == 2
FindLines == StringsUpTo(MaxFind)
CatDog == <<"a", " ", "c", "a", "t", NewLine, "c", "a", "t", " ", "d", "o", "g", NewLine>>
FindTexts ==
    {first \o <<NewLine>> \o second \o <<NewLine>> : first \in FindLines, second \in FindLines}
        \cup {CatDog}
FindQueries == {<<"a">>, <<"a", "b">>, <<"c", "a", "t">>}
SearchDirections == {"Forward", "Backward"}

InitFind ==
    /\ impl = "Document"
    /\ build = "release"
    /\ \E text \in FindTexts :
          LET o == DocumentOpen("notes.txt", text)
          IN /\ rows = o.rows
             /\ dirty = o.dirty
             /\ file_name = o.file_name
             /\ file_type = o.file_type
             /\ disk = [n \in FileNames |-> IF n = "notes.txt" THEN FileOf(text) ELSE NoFile]
    /\ saved = Contents(rows)
    /\ panicked = FALSE
    /\ call = [op |-> "new"]
    /\ ncalls = 0
    /\ RowIdle
    /\ AppIdle

FindCall ==
    \E query \in FindQueries, direction \in SearchDirections, y \in 0..Len(rows) :
        \E x \in 0..(RowLenAt(rows, y) + 1) :
            /\ call' = [op |-> "find", query |-> query, at |-> Pos(x, y),
                        direction |-> direction,
                        ret |-> DocumentFind(rows, query, Pos(x, y), direction)]
            /\ UNCHANGED <<impl, build, rows, dirty, file_name, file_type, panicked, ncalls,
                           disk, saved, rowVars, appVars>>

NextFind == FindCall

SpecFind == InitFind /\ [][NextFind]_vars

----------------------------------------------------------------------------
(* Claims about Document::find, checked under SpecFind. *)

\* The columns of the row with graphemes g at which the graphemes w occur.
OccurrencesIn(g, w) == {i \in 0..(Len(g) - Len(w)) : SubSeq(g, i + 1, i + Len(w)) = w}

SetMin(S) == CHOOSE i \in S : \A j \in S : i <= j
SetMax(S) == CHOOSE i \in S : \A j \in S : i >= j

\* The first match in scan order, searching the rows rs for the graphemes w
\* from position at.
FirstMatch(rs, w, at, direction) ==
    LET occ(y) == OccurrencesIn(Graphemes(rs[y + 1].string), w)
        here == IF direction = "Forward"
                THEN {i \in occ(at.y) : i >= at.x}
                ELSE {i \in occ(at.y) : i + Len(w) <= at.x}
        others == IF direction = "Forward"
                  THEN {y \in (at.y + 1)..(Len(rs) - 1) : occ(y) # {}}
                  ELSE {y \in 0..(at.y - 1) : occ(y) # {}}
    IN IF at.y >= Len(rs) THEN NoPosition
       ELSE IF here # {}
       THEN SomePosition(IF direction = "Forward" THEN SetMin(here) ELSE SetMax(here), at.y)
       ELSE IF others = {} THEN NoPosition
       ELSE IF direction = "Forward"
       THEN SomePosition(SetMin(occ(SetMin(others))), SetMin(others))
       ELSE SomePosition(SetMax(occ(SetMax(others))), SetMax(others))

\* C24: Document::find with a non-empty query returns the first match in
\* scan order: forward, the earliest occurrence at or after from.column on
\* row from.row, else the leftmost one on the nearest later row; backward,
\* the rightmost occurrence within columns [0, from.column) of row
\* from.row, else the rightmost one on the nearest earlier row; the
\* position returned is a real occurrence, and None is returned exactly
\* when there is no such occurrence.
C24_FindFirstMatch ==
    call.op = "find" =>
        call.ret = FirstMatch(rows, Graphemes(call.query), call.at, call.direction)

----------------------------------------------------------------------------
(* More claims about App, checked under Spec. *)

\* C26: whenever the size of the visible area changes (update_bounds is
\* called with a different rectangle), the cursor and the scroll offset
\* are brought back to a consistent value: in the state right after the
\* change the cursor lies inside [offset, offset + new size) on both axes,
\* before any further key event.
C26_ResizeKeepsCursorVisible ==
    [][(pc = "draw" /\ pc' = "key" /\ terminal_size' # terminal_size) =>
          InWindow(cursor_position', offset', terminal_size')]_vars

\* C27: every completed save intent (Ctrl-O, write_out), with or without a
\* prompt for the name and whether or not the write succeeded, leaves
\* current_screen = Main, so that the key intents keep being processed and
\* Ctrl-X still leads to should_quit.
C27_SaveReturnsToMain ==
    call.op = "CtrlO" => current_screen = "Main"

----------------------------------------------------------------------------
(* Editor of src/src/editor.rs: the cursor, the scroll offset, the keys, *)
(* the search prompt and the quit counter, on a Document.  Editor::run    *)
(* refreshes the screen (which highlights the rows on screen), returns    *)
(* when should_quit is set, and otherwise processes one event.  The       *)
(* prompt of search refreshes the screen and reads one event per turn of  *)
(* its loop.  The status message is text for the user only and is left    *)
(* out; the terminal calls are taken to succeed.                          *)

EDITOR_QUIT_TIMES == 3

\* Characters typed into the document and into the search prompt.
EditorKeyChars == {"a", "U+0301"}
QueryChars == {"a"}

\* Terminal::size: the width and the height less two rows, read once.
Sizes == {[width |-> w, height |-> h] : w \in 1..MaxSide, h \in 1..MaxSide}

\* The match on the key in Editor::move_cursor: the cursor before x is
\* clamped.  Up and the wrap of Left stop at row 1.
EditorMovedCursor(cur, key, rs, terminal_height) ==
    LET height == Len(rs)
        width == RowLenAt(rs, cur.y)
    IN CASE key = "Up" -> Pos(cur.x, IF cur.y > 1 THEN cur.y - 1 ELSE cur.y)
         [] key = "Down" -> Pos(cur.x, IF cur.y < height THEN cur.y + 1 ELSE cur.y)
         [] key = "Left" -> IF cur.x > 0 THEN Pos(cur.x - 1, cur.y)
                            ELSE IF cur.y > 1 THEN Pos(RowLenAt(rs, cur.y - 1), cur.y - 1)
                            ELSE cur
         [] key = "Right" -> IF cur.x < width THEN Pos(cur.x + 1, cur.y)
                             ELSE IF cur.y < height THEN Pos(0, cur.y + 1)
                             ELSE cur
         [] key = "PageUp" -> Pos(cur.x, IF cur.y > terminal_height
                                         THEN SaturatingSub(cur.y, terminal_height) ELSE 0)
         [] key = "PageDown" -> Pos(cur.x, IF cur.y + terminal_height < height
                                           THEN cur.y + terminal_height ELSE height)
         [] key = "Home" -> Pos(0, cur.y)
         [] key = "End" -> Pos(width, cur.y)
         [] OTHER -> cur

EditorMoveCursor(cur, key, rs, terminal_height) ==
    ClampCursor(EditorMovedCursor(cur, key, rs, terminal_height), rs)

\* A quit key that warns whether or not the document is dirty.
EditorQuit_IgnoresDirty(times, is_dirty, quit) ==
    IF times > 0
    THEN [quit_times |-> times - 1, should_quit |-> quit, returned |-> TRUE]
    ELSE [quit_times |-> times, should_quit |-> TRUE, returned |-> FALSE]

\* The quit key: [quit_times, should_quit, returned]; returned says the
\* handler returned at once, before scroll and the reset of the counter.
EditorQuit(times, is_dirty, quit) ==
    IF times > 0 /\ is_dirty
    THEN [quit_times |-> times - 1, should_quit |-> quit, returned |-> TRUE]
    ELSE [quit_times |-> times, should_quit |-> TRUE, returned |-> FALSE]

\* The end of process_keypress: the counter goes back to its start.
ResetQuitTimes(times) == IF times < EDITOR_QUIT_TIMES THEN EDITOR_QUIT_TIMES ELSE times

\* String::truncate(len - 1): [string, panic]; the new length must be a
\* char boundary.
TruncateLast(result) ==
    IF result = <<>> THEN [string |-> result, panic |-> FALSE]
    ELSE IF IsCharBoundary(result, ByteLen(result) - 1)
    THEN [string |-> SubSeq(result, 1, Len(result) - 1), panic |-> FALSE]
    ELSE [string |-> result, panic |-> TRUE]

\* What the prompt of save returns: a typed name or nothing.
SavePromptOutcomes == {[kind |-> "name", name |-> n] : n \in FileNames}
                         \cup {[kind |-> "none", name |-> NoName]}

InitEditor ==
    /\ impl = "Document"
    /\ build \in {"debug", "release"}
    /\ \/ /\ rows = DocumentDefault.rows
          /\ dirty = DocumentDefault.dirty
          /\ file_name = DocumentDefault.file_name
          /\ file_type = DocumentDefault.file_type
          /\ disk = [n \in FileNames |-> NoFile]
       \/ \E text \in StartTexts :
             LET o == DocumentOpen("main.rs", text)
             IN /\ rows = o.rows
                /\ dirty = o.dirty
                /\ file_name = o.file_name
                /\ file_type = o.file_type
                /\ disk = [n \in FileNames |-> IF n = "main.rs" THEN FileOf(text) ELSE NoFile]
    /\ saved = Contents(rows)
    /\ panicked = FALSE
    /\ call = [op |-> "new"]
    /\ ncalls = 0
    /\ cursor_position = Pos(0, 1)
    /\ offset = Pos(0, 0)
    /\ terminal_size \in Sizes
    /\ current_screen = "Main"
    /\ should_quit = FALSE
    /\ quit_times = EDITOR_QUIT_TIMES
    /\ pc = "refresh"
    /\ highlighted_word = NoWord
    /\ prompt = NoPrompt
    /\ RowIdle

\* The ghost record of an event: the key, and how many quit presses that
\* only warned came right before it.
EditorCalled(key) ==
    [op |-> key,
     warned |-> IF call.op = "Quit" /\ call.returned THEN call.warned + 1 ELSE 0,
     returned |-> FALSE, was_dirty |-> dirty, times |-> quit_times]

\* refresh_screen, in run and in prompt: when should_quit is not set it
\* highlights the rows down to the last one on screen.
Refresh ==
    /\ pc \in {"refresh", "prompt_refresh"}
    /\ IF should_quit
       THEN /\ pc' = IF pc = "refresh" THEN "done" ELSE "prompt_key"
            /\ UNCHANGED <<rows, panicked>>
       ELSE \E d \in {DocumentHighlight(D, file_type, highlighted_word,
                                        Until(offset.y + terminal_size.height))} :
               /\ rows' = d.rows
               /\ panicked' = d.panic
               /\ pc' = IF d.panic THEN "done"
                        ELSE IF pc = "refresh" THEN "key" ELSE "prompt_key"
    /\ UNCHANGED <<rowVars, impl, build, dirty, file_name, file_type, call, ncalls, disk,
                   saved, cursor_position, offset, terminal_size, current_screen,
                   should_quit, quit_times, highlighted_word, prompt>>

\* process_keypress reads an event: the runs stop after n events.
CanEventWithin(n) == pc = "key" /\ ncalls < n
CanEvent == CanEventWithin(MaxKeys)

\* The end of process_keypress: scroll, the reset of the counter, and back
\* to the top of the loop of run.
EventDone(key, cur, off) ==
    /\ offset' = Scroll(cur, off, terminal_size)
    /\ quit_times' = ResetQuitTimes(quit_times)
    /\ pc' = "refresh"
    /\ ncalls' = ncalls + 1
    /\ call' = EditorCalled(key)
    /\ UNCHANGED <<rowVars, impl, build, terminal_size, current_screen>>

\* A call made by a handler panicked: the thread unwinds.
EventPanics(key, d) ==
    /\ panicked' = TRUE
    /\ pc' = "done"
    /\ dirty' = d.dirty
    /\ rows' = d.rows
    /\ ncalls' = ncalls + 1
    /\ call' = EditorCalled(key)
    /\ UNCHANGED <<rowVars, impl, build, terminal_size, file_name, file_type, disk, saved,
                   cursor_position, offset, current_screen, should_quit, quit_times,
                   highlighted_word, prompt>>

\* A document call of a handler, then the cursor move that follows it.
EventEdits(key, d, cur) ==
    IF d.panic
    THEN EventPanics(key, d)
    ELSE /\ rows' = d.rows
         /\ dirty' = d.dirty
         /\ cursor_position' = cur
         /\ EventDone(key, cur, offset)
         /\ UNCHANGED <<file_name, file_type, disk, saved, panicked, should_quit,
                        highlighted_word, prompt>>

\* Ctrl-Q or Esc.
EventQuitWithin(n) ==
    /\ CanEventWithin(n)
    /\ \E q \in {EditorQuit(quit_times, dirty, should_quit)} :
          /\ should_quit' = q.should_quit
          /\ IF q.returned
             THEN /\ quit_times' = q.quit_times
                  /\ pc' = "refresh"
                  /\ ncalls' = ncalls + 1
                  /\ call' = [EditorCalled("Quit") EXCEPT !.returned = TRUE]
                  /\ UNCHANGED <<rowVars, impl, build, terminal_size, current_screen, offset>>
             ELSE EventDone("Quit", cursor_position, offset)
    /\ UNCHANGED <<rows, dirty, file_name, file_type, disk, saved, panicked,
                   cursor_position, highlighted_word, prompt>>

EventQuit == EventQuitWithin(MaxKeys)

\* Ctrl-S: save, with its prompt when the document has no name.  The
\* refreshes of that prompt highlight rows that the refresh before the key
\* has highlighted already.
EventSaveWithin(n) ==
    \E typed \in SavePromptOutcomes, io \in IoOutcomes(rows) :
        /\ CanEventWithin(n)
        /\ file_name # NoName => typed.kind = "none"
        /\ IF file_name = NoName /\ typed.kind # "name"
           THEN UNCHANGED <<dirty, file_name, file_type, disk, saved>>
           ELSE LET named == [F EXCEPT !.file_name = IF file_name = NoName
                                                     THEN typed.name ELSE file_name]
                    res == DocumentSave(named, io)
                IN /\ file_name' = named.file_name
                   /\ dirty' = res.f.dirty
                   /\ file_type' = res.f.file_type
                   /\ disk' = res.f.disk
                   /\ saved' = IF res.ok THEN Contents(rows) ELSE saved
        /\ EventDone("Save", cursor_position, offset)
        /\ UNCHANGED <<rows, panicked, cursor_position, should_quit, highlighted_word, prompt>>

EventSave == EventSaveWithin(MaxKeys)

\* Ctrl-F: search enters its prompt.
EventSearch ==
    /\ CanEvent
    /\ prompt' = [result |-> <<>>, direction |-> "Forward", old_position |-> cursor_position]
    /\ pc' = "prompt_refresh"
    /\ ncalls' = ncalls + 1
    /\ call' = EditorCalled("Search")
    /\ UNCHANGED <<rowVars, impl, build, rows, dirty, file_name, file_type, panicked, disk,
                   saved, cursor_position, offset, terminal_size, current_screen,
                   should_quit, quit_times, highlighted_word>>

PromptKeys == {"Backspace", "Char", "Left", "Up", "Right", "Down", "Other"}

\* A key in the prompt of search that does not end it: the result changes
\* and the callback of search runs.
PromptKey ==
    \E key \in PromptKeys, c \in QueryChars :
        LET cut == TruncateLast(prompt.result)
            result == IF key = "Backspace" THEN cut.string
                      ELSE IF key = "Char" THEN Append(prompt.result, c)
                      ELSE prompt.result
            moved == key \in {"Right", "Down"}
            direction == IF key \in {"Left", "Up"} THEN "Backward" ELSE "Forward"
            cur == IF moved
                   THEN EditorMoveCursor(cursor_position, "Right", rows, terminal_size.height)
                   ELSE cursor_position
            position == DocumentFind(rows, result, cur, direction)
        IN /\ pc = "prompt_key" /\ ncalls < MaxKeys
           /\ ncalls' = ncalls + 1
           /\ call' = EditorCalled("Prompt" \o key)
           /\ IF key = "Backspace" /\ cut.panic
              THEN /\ panicked' = TRUE
                   /\ pc' = "done"
                   /\ UNCHANGED <<cursor_position, offset, highlighted_word, prompt>>
              ELSE /\ prompt' = [prompt EXCEPT !.result = result, !.direction = direction]
                   /\ highlighted_word' = Word(result)
                   /\ pc' = "prompt_refresh"
                   /\ UNCHANGED panicked
                   /\ IF position.some
                      THEN /\ cursor_position' = Pos(position.x, position.y)
                           /\ offset' = Scroll(Pos(position.x, position.y), offset, terminal_size)
                      ELSE /\ cursor_position' =
                                 IF moved
                                 THEN EditorMoveCursor(cur, "Left", rows, terminal_size.height)
                                 ELSE cur
                           /\ UNCHANGED offset
           /\ UNCHANGED <<rowVars, impl, build, rows, dirty, file_name, file_type, disk, saved,
                          terminal_size, current_screen, should_quit, quit_times>>

\* An event in the prompt that is no key: the loop goes round.
PromptNoKey ==
    /\ pc = "prompt_key" /\ ncalls < MaxKeys
    /\ pc' = "prompt_refresh"
    /\ ncalls' = ncalls + 1
    /\ call' = EditorCalled("PromptNoKey")
    /\ UNCHANGED <<rowVars, impl, build, rows, dirty, file_name, file_type, panicked, disk,
                   saved, cursor_position, offset, terminal_size, current_screen,
                   should_quit, quit_times, highlighted_word, prompt>>

\* Enter or Esc in the prompt: search ends, highlighted_word is reset, and
\* process_keypress ends.
PromptEnd ==
    \E key \in {"Enter", "Esc"} :
        LET result == IF key = "Esc" THEN <<>> ELSE prompt.result
            cur == IF result = <<>> THEN prompt.old_position ELSE cursor_position
            off == IF result = <<>> THEN Scroll(cur, offset, terminal_size) ELSE offset
        IN /\ pc = "prompt_key" /\ ncalls < MaxKeys
           /\ cursor_position' = cur
           /\ highlighted_word' = NoWord
           /\ prompt' = NoPrompt
           /\ EventDone("Prompt" \o key, cur, off)
           /\ UNCHANGED <<rows, dirty, file_name, file_type, disk, saved, panicked,
                          should_quit>>

EventEnter ==
    /\ CanEvent
    /\ \E d \in {DocumentInsertNewline(D, cursor_position)} :
          EventEdits("Enter", d,
                     EditorMoveCursor(cursor_position, "Right", d.rows, terminal_size.height))

EventCharWithin(n) ==
    \E c \in EditorKeyChars :
        /\ CanEventWithin(n)
        /\ \E d \in {DocumentInsert(D, cursor_position, c)} :
              EventEdits("Char", d,
                         EditorMoveCursor(cursor_position, "Right", d.rows,
                                          terminal_size.height))

EventChar == EventCharWithin(MaxKeys)

EventDelete ==
    /\ CanEvent
    /\ EventEdits("Delete", DocumentDelete(D, cursor_position), cursor_position)

EventBackspace ==
    /\ CanEvent
    /\ IF cursor_position.x > 0 \/ cursor_position.y > 0
       THEN \E cur \in {EditorMoveCursor(cursor_position, "Left", rows, terminal_size.height)} :
               EventEdits("Backspace", DocumentDelete(D, cur), cur)
       ELSE /\ EventDone("Backspace", cursor_position, offset)
            /\ UNCHANGED <<rows, dirty, file_name, file_type, disk, saved, panicked,
                           cursor_position, should_quit, highlighted_word, prompt>>

EventMove ==
    \E key \in MoveKeys :
        \E cur \in {EditorMoveCursor(cursor_position, key, rows, terminal_size.height)} :
            /\ CanEvent
            /\ cursor_position' = cur
            /\ EventDone(key, cur, offset)
            /\ UNCHANGED <<rows, dirty, file_name, file_type, disk, saved, panicked,
                           should_quit, highlighted_word, prompt>>

\* Any other key, and any event that is no key.
EventOtherWithin(n) ==
    /\ CanEventWithin(n)
    /\ EventDone("Other", cursor_position, offset)
    /\ UNCHANGED <<rows, dirty, file_name, file_type, disk, saved, panicked,
                   cursor_position, should_quit, highlighted_word, prompt>>

EventOther == EventOtherWithin(MaxKeys)

NextEditor ==
    \/ Refresh
    \/ EventQuit
    \/ EventSave
    \/ EventSearch
    \/ PromptKey
    \/ PromptNoKey
    \/ PromptEnd
    \/ EventEnter
    \/ EventChar
    \/ EventDelete
    \/ EventBackspace
    \/ EventMove
    \/ EventOther

SpecEditor == InitEditor /\ [][NextEditor]_vars

\* The quit machine: the Editor on a document of one row opened from
\* main.rs, under the quit key, typed characters, saves and other events,
\* for runs long enough to press the quit key EDITOR_QUIT_TIMES + 1 times
\* after an edit.
MaxPresses == 5

InitQuit ==
    /\ InitEditor
    /\ Len(rows) = 1
    /\ terminal_size = [width |-> MaxSide, height |-> MaxSide]

NextQuit ==
    \/ Refresh
    \/ EventQuitWithin(MaxPresses)
    \/ EventCharWithin(MaxPresses)
    \/ EventSaveWithin(MaxPresses)
    \/ EventOtherWithin(MaxPresses)

SpecQuit == InitQuit /\ [][NextQuit]_vars

----------------------------------------------------------------------------
(* Claims about Editor, checked under SpecEditor. *)

\* C25: cursor movement wraps across rows: Right with cursor.x at the
\* length of a non-final row moves the cursor to (row + 1, 0), and Left
\* from column 0 of any row but the first moves it to (row - 1, length of
\* row - 1); Left at (0, 0) and Right at the position past the last line
\* leave the cursor where it is.
C25_CursorWraps ==
    [][(ncalls' = ncalls + 1 /\ ~panicked') =>
          LET x == cursor_position.x
              y == cursor_position.y
          IN /\ (call'.op = "Right" /\ y + 1 < Len(rows) /\ x = RowLenAt(rows, y)) =>
                    cursor_position' = Pos(0, y + 1)
             /\ (call'.op = "Left" /\ x = 0 /\ y > 0) =>
                    cursor_position' = Pos(RowLenAt(rows, y - 1), y - 1)
             /\ (call'.op = "Left" /\ x = 0 /\ y = 0) =>
                    cursor_position' = cursor_position
             /\ (call'.op = "Right" /\ x = 0 /\ y = Len(rows)) =>
                    cursor_position' = cursor_position]_vars

\* The rows that refresh_screen highlights: down to the last one on
\* screen.
HighlightedRange == 1..Min(Len(rows), offset.y + terminal_size.height + 1)

\* C29: once a search has ended (highlighted_word is None again), the
\* next Document::highlight leaves no row of the highlighted range with a
\* Match tag: match tags exist only while a search word is active.
C29_NoMatchAfterSearch ==
    (pc = "key" /\ ~highlighted_word.some /\ ~panicked) =>
        \A i \in HighlightedRange : "Match" \notin Range(rows[i].highlighting)

----------------------------------------------------------------------------
(* Claims about the quit key of Editor, checked under SpecQuit. *)

\* C30: in Editor the counter stays within 0..EDITOR_QUIT_TIMES; a quit
\* press on a dirty document sets should_quit exactly when the
\* EDITOR_QUIT_TIMES events right before it were quit presses that only
\* warned, and each such press took one off the counter; a quit press on
\* a clean document sets should_quit at once; every other processed event
\* leaves the counter at EDITOR_QUIT_TIMES.
C30_QuitCounter ==
    /\ quit_times \in 0..EDITOR_QUIT_TIMES
    /\ ncalls > 0 /\ call.op = "Quit" /\ call.was_dirty =>
          /\ should_quit <=> call.warned = EDITOR_QUIT_TIMES
          /\ call.returned <=> ~should_quit
          /\ call.returned => quit_times = EDITOR_QUIT_TIMES - (call.warned + 1)
    /\ ncalls > 0 /\ call.op = "Quit" /\ ~call.was_dirty => should_quit /\ ~call.returned
    /\ ncalls > 0 /\ ~call.returned /\ ~panicked => quit_times = EDITOR_QUIT_TIMES
    /\ ncalls = 0 => quit_times = EDITOR_QUIT_TIMES /\ ~should_quit

C30_Witness ==
    /\ should_quit
    /\ dirty
    /\ call.op = "Quit"
    /\ call.was_dirty
    /\ call.warned = EDITOR_QUIT_TIMES
    /\ quit_times = EDITOR_QUIT_TIMES

----------------------------------------------------------------------------
(* The edit machine: a two-row Document opened from a file, under        *)
(* insert, insert_newline and delete calls, each followed by the         *)
(* highlight call that refresh_screen makes with no search word.         *)

\* Second lines of the documents: one that closes the block comment of
\* the first line, and one that does not.
EditSecondLines == { <<"a", "*", "/">>, <<"a">> }

\* The chars that insert is called with.
EditChars == {"*", "a", NewLine}

\* highlight goes over every row, or down to the second.
EditUntils == {NoUntil, Until(1)}

InitEdit ==
    /\ impl = "Document"
    /\ build = "release"
    /\ \E name \in HlFileNames, first \in FirstLines, second \in EditSecondLines :
          LET text == first \o <<NewLine>> \o second \o <<NewLine>>
              o == DocumentOpen(name, text)
          IN /\ rows = o.rows
             /\ dirty = o.dirty
             /\ file_name = o.file_name
             /\ file_type = o.file_type
             /\ disk = [n \in FileNames |-> IF n = name THEN FileOf(text) ELSE NoFile]
    /\ saved = Contents(rows)
    /\ panicked = FALSE
    /\ call = [op |-> "new"]
    /\ ncalls = 0
    /\ RowIdle
    /\ AppIdle

\* The highlight call after an edit that left the document e.
ThenHighlight(op, at, e) ==
    \E until \in EditUntils :
        \E d \in {IF e.panic THEN [rows |-> e.rows, panic |-> TRUE]
                  ELSE DocumentHighlight(e, file_type, NoWord, until)} :
           /\ ncalls' = ncalls + 1
           /\ rows' = d.rows
           /\ dirty' = e.dirty
           /\ panicked' = d.panic
           /\ call' = [op |-> op, at |-> at, until |-> until,
                       cached |-> [i \in 1..Len(e.rows) |-> e.rows[i].is_highlighted]]
           /\ UNCHANGED <<impl, build, file_name, file_type, disk, saved, rowVars, appVars>>

\* Positions of the edits: every row up to one past the last, and in each
\* row every column up to its len().
EditPositions ==
    UNION {{Pos(x, y) : x \in 0..RowLenAt(rows, y)} : y \in 0..(Len(rows) + 1)}

\* The runs stop after a panic and after MaxCalls edits.
CanEdit == ~panicked /\ ncalls < MaxCalls

InsertThenHighlight ==
    /\ CanEdit
    /\ \E at \in EditPositions, c \in EditChars :
          ThenHighlight("insert", at, DocumentInsert(D, at, c))

InsertNewlineThenHighlight ==
    /\ CanEdit
    /\ \E at \in EditPositions :
          ThenHighlight("insert_newline", at, DocumentInsertNewline(D, at))

DeleteThenHighlight ==
    /\ CanEdit
    /\ \E at \in EditPositions :
          ThenHighlight("delete", at, DocumentDelete(D, at))

NextEdit ==
    \/ InsertThenHighlight
    \/ InsertNewlineThenHighlight
    \/ DeleteThenHighlight

SpecEdit == InitEdit /\ [][NextEdit]_vars

----------------------------------------------------------------------------
(* Claims about edits followed by highlight, checked under SpecEdit. *)

\* The document as Document::open loads it from the strings of the rows,
\* after a highlight call without search word over all of its rows.
FreshlyHighlighted ==
    DocumentHighlight([rows |-> [i \in 1..Len(rows) |-> RowFrom(rows[i].string)],
                       dirty |-> FALSE, panic |-> FALSE],
                      file_type, NoWord, NoUntil)

\* C28: after any sequence of insert, insert_newline and delete calls, each
\* followed by highlight with no search word, the tags of every row marked
\* highlighted equal the tags that highlight gives to that row of a freshly
\* loaded document with the same row contents.
C28_CachedTagsFresh ==
    (ncalls > 0 /\ ~panicked) =>
        \E fresh \in {FreshlyHighlighted} :
            ~fresh.panic =>
                \A i \in 1..Len(rows) :
                    rows[i].is_highlighted =>
                        rows[i].highlighting = fresh.rows[i].highlighting

====
